---- MODULE Spec2Model ----
(***************************************************************************)
(* A model of orchis-nozoki: the OCS parser (orchis.ts), the shell item    *)
(* identifier list decoder (idl.ts), the CLSID value type (the class in    *)
(* the form idl.ts constructs it, plus clsid.ts) and the viewer's state    *)
(* (app.ts).                                                               *)
(*                                                                         *)
(* Conventions.  A Uint8Array and a JavaScript string are sequences of     *)
(* numbers (bytes, UTF-16 code units); indices in the operators below are  *)
(* 0-based as in the source.  A thrown exception is the "err" field of a   *)
(* result record: "none", or the class of the error thrown.                *)
(***************************************************************************)
EXTENDS Integers, Sequences, FiniteSets, TLC

\* The value a typed-array read yields outside the array (JavaScript's
\* undefined); every byte is >= 0, so no byte is mistaken for it.
Undefined == -1

Min(a, b) == IF a < b THEN a ELSE b

Max(a, b) == IF a > b THEN a ELSE b

\* arr[i]
At(arr, i) == IF i >= 0 /\ i < Len(arr) THEN arr[i + 1] ELSE Undefined

\* ToInt32 of an operand of | and <<: undefined counts as 0.
ToInt(x) == IF x = Undefined THEN 0 ELSE x

\* arr[i + 0] | (arr[i + 1] << 8) on bytes
U16At(arr, i) == ToInt(At(arr, i)) + 256 * ToInt(At(arr, i + 1))

\* arr.subarray(begin, end) for begin, end >= 0: both clamped to the length.
Subarray(arr, begin, end) ==
    LET b == Min(Max(begin, 0), Len(arr))
        e == Min(Max(end, 0), Len(arr))
    IN  IF b >= e THEN <<>> ELSE SubSeq(arr, b + 1, e)

\* arr.subarray(begin)
SubarrayFrom(arr, begin) == Subarray(arr, begin, Len(arr))

RECURSIVE readAsciiFrom(_, _)
readAsciiFrom(arr, i) ==
    IF i < Len(arr) /\ At(arr, i) # 0
    THEN <<At(arr, i)>> \o readAsciiFrom(arr, i + 1)
    ELSE <<>>

readAsciiString(arr) == readAsciiFrom(arr, 0)

RECURSIVE readStringFrom(_, _)
readStringFrom(arr, i) ==
    IF i + 1 < Len(arr) /\ (At(arr, i) # 0 \/ At(arr, i + 1) # 0)
    THEN <<U16At(arr, i)>> \o readStringFrom(arr, i + 2)
    ELSE <<>>

readString(arr) == readStringFrom(arr, 0)

(***************************************************************************)
(* CLSID.  data1 is a 32-bit number; it is kept as two 16-bit halves       *)
(* (data1 = 65536 * d1hi + d1lo) so that every value stays in range.       *)
(***************************************************************************)
\* The value of one hex digit (a code unit), Undefined for any other unit.
HexVal(c) ==
    IF c >= 48 /\ c <= 57 THEN c - 48
    ELSE IF c >= 65 /\ c <= 70 THEN c - 55
    ELSE IF c >= 97 /\ c <= 102 THEN c - 87
    ELSE Undefined

IsHex(c) == HexVal(c) # Undefined

\* Number.parseInt(n, 16) on a string of hex digits
RECURSIVE parseInt16(_)
parseInt16(n) ==
    IF n = <<>> THEN 0
    ELSE 16 * parseInt16(SubSeq(n, 1, Len(n) - 1)) + HexVal(n[Len(n)])

\* The pattern without its end anchor: whatever follows the brace is let by.
IsCLSIDString_unanchored(s) ==
    /\ Len(s) >= 38
    /\ s[1] = 123
    /\ s[38] = 125
    /\ \A i \in 2..37 :
          IF i \in {10, 15, 20, 25} THEN s[i] = 45 ELSE IsHex(s[i])

\* /^{[\da-f]{8}-[\da-f]{4}-[\da-f]{4}-[\da-f]{4}-[\da-f]{12}}$/i.test(s)
IsCLSIDString(s) ==
    /\ Len(s) = 38
    /\ s[1] = 123
    /\ s[38] = 125
    /\ \A i \in 2..37 :
          IF i \in {10, 15, 20, 25} THEN s[i] = 45 ELSE IsHex(s[i])

\* s.slice(begin, end) of a string
Slice(s, begin, end) == Subarray(s, begin, end)

\* new CLSID(src) for a string
CLSIDFromString(src) ==
    IF ~IsCLSIDString(src)
    THEN [err |-> "Error", d1hi |-> 0, d1lo |-> 0, data2 |-> 0, data3 |-> 0,
          data4 |-> <<>>]
    ELSE LET body == Slice(src, 1, 37)
             a == Slice(body, 0, 8)
             b == Slice(body, 9, 13)
             c == Slice(body, 14, 18)
             d == Slice(body, 19, 23)
             e == Slice(body, 24, 36)
         IN  [err |-> "none",
              d1hi |-> parseInt16(Slice(a, 0, 4)),
              d1lo |-> parseInt16(Slice(a, 4, 8)),
              data2 |-> parseInt16(b),
              data3 |-> parseInt16(c),
              data4 |-> <<parseInt16(Slice(d, 0, 2)), parseInt16(Slice(d, 2, 4)),
                          parseInt16(Slice(e, 0, 2)), parseInt16(Slice(e, 2, 4)),
                          parseInt16(Slice(e, 4, 6)), parseInt16(Slice(e, 6, 8)),
                          parseInt16(Slice(e, 8, 10)), parseInt16(Slice(e, 10, 12))>>]

\* The high half of src[0] | (src[1] << 8) | (src[2] << 16) | (src[3] << 24)
\* as a signed 32-bit number: negative when bit 31 is set.
Int32Hi(src) ==
    LET hi == src[3] + 256 * src[4]
    IN  IF hi >= 32768 THEN hi - 65536 ELSE hi

\* The high half left signed.
ToUint32Hi_signed(hi) == hi

\* x >>> 0 on the high half
ToUint32Hi(hi) == hi % 65536

\* new CLSID(src) for a Uint8Array
CLSIDFromBytes(src) ==
    IF Len(src) # 16
    THEN [err |-> "Error", d1hi |-> 0, d1lo |-> 0, data2 |-> 0, data3 |-> 0,
          data4 |-> <<>>]
    ELSE [err |-> "none",
          d1hi |-> ToUint32Hi(Int32Hi(src)),
          d1lo |-> src[1] + 256 * src[2],
          data2 |-> src[5] + 256 * src[6],
          data3 |-> src[7] + 256 * src[8],
          data4 |-> Subarray(src, 8, 16)]

\* CLSID.fromArray(arr) of clsid.ts: err = "undefined" is the undefined it
\* returns in place of a value.
CLSID_fromArray(arr) ==
    IF Len(arr) # 16
    THEN [err |-> "undefined", d1hi |-> 0, d1lo |-> 0, data2 |-> 0, data3 |-> 0,
          data4 |-> <<>>]
    ELSE [err |-> "none",
          d1hi |-> ToUint32Hi(Int32Hi(arr)),
          d1lo |-> arr[1] + 256 * arr[2],
          data2 |-> arr[5] + 256 * arr[6],
          data3 |-> arr[7] + 256 * arr[8],
          data4 |-> Slice(arr, 8, 16)]

\* CLSID.fromString(s) of clsid.ts
CLSID_fromString(s) ==
    IF ~IsCLSIDString(s)
    THEN [err |-> "undefined", d1hi |-> 0, d1lo |-> 0, data2 |-> 0, data3 |-> 0,
          data4 |-> <<>>]
    ELSE CLSIDFromString(s)

\* CLSID.parse(s) of clsid.ts
CLSID_parse(s) ==
    IF CLSID_fromString(s).err = "undefined"
    THEN [err |-> "Error", d1hi |-> 0, d1lo |-> 0, data2 |-> 0, data3 |-> 0,
          data4 |-> <<>>]
    ELSE CLSID_fromString(s)

\* The object a constructor call that did not throw yields.
CLSIDValue(r) ==
    [d1hi |-> r.d1hi, d1lo |-> r.d1lo, data2 |-> r.data2, data3 |-> r.data3,
     data4 |-> r.data4]

CLSID_equals(this, other) ==
    /\ this.d1hi = other.d1hi
    /\ this.d1lo = other.d1lo
    /\ this.data2 = other.data2
    /\ this.data3 = other.data3
    /\ \A i \in 0..7 : At(this.data4, i) = At(other.data4, i)

\* n.toString(16).toUpperCase() of one digit
HexDigit(d) == IF d < 10 THEN 48 + d ELSE 55 + d

\* The digits without the padding: no leading zeros, "0" for 0.
RECURSIVE toUpperHexWithPad_noPad(_, _)
toUpperHexWithPad_noPad(n, pad) ==
    IF n < 16 THEN <<HexDigit(n)>>
    ELSE toUpperHexWithPad_noPad(n \div 16, pad) \o <<HexDigit(n % 16)>>

\* toUpperHexWithPad(n, pad) for 0 <= n < 16^pad
RECURSIVE toUpperHexWithPad(_, _)
toUpperHexWithPad(n, pad) ==
    IF pad = 0 THEN <<>>
    ELSE toUpperHexWithPad(n \div 16, pad - 1) \o <<HexDigit(n % 16)>>

RECURSIVE HexJoin(_)
HexJoin(bytes) ==
    IF bytes = <<>> THEN <<>>
    ELSE toUpperHexWithPad(Head(bytes), 2) \o HexJoin(Tail(bytes))

CLSID_toString(this) ==
    <<123>> \o toUpperHexWithPad(this.d1hi, 4) \o toUpperHexWithPad(this.d1lo, 4)
        \o <<45>> \o toUpperHexWithPad(this.data2, 4)
        \o <<45>> \o toUpperHexWithPad(this.data3, 4)
        \o <<45>> \o toUpperHexWithPad(this.data4[1], 2)
        \o toUpperHexWithPad(this.data4[2], 2)
        \o <<45>> \o HexJoin(SubarrayFrom(this.data4, 2)) \o <<125>>

(***************************************************************************)
(* The well-known CLSIDs: each is the value the constructor yields for the *)
(* string the source passes to it (data1 split into its two halves).       *)
(***************************************************************************)
\* new CLSID("{46e06680-4bf0-11d1-83ee-00a0c90dc849}")
CLSID_NetworkDomain ==
    [d1hi |-> 18144, d1lo |-> 26240, data2 |-> 19440, data3 |-> 4561,
     data4 |-> <<131, 238, 0, 160, 201, 13, 200, 73>>]

\* new CLSID("{c0542a90-4bf0-11d1-83ee-00a0c90dc849}")
CLSID_NetworkServer ==
    [d1hi |-> 49236, d1lo |-> 10896, data2 |-> 19440, data3 |-> 4561,
     data4 |-> <<131, 238, 0, 160, 201, 13, 200, 73>>]

\* new CLSID("{54a754c0-4bf1-11d1-83ee-00a0c90dc849}")
CLSID_NetworkShare ==
    [d1hi |-> 21671, d1lo |-> 21696, data2 |-> 19441, data3 |-> 4561,
     data4 |-> <<131, 238, 0, 160, 201, 13, 200, 73>>]

\* new CLSID("{20D04FE0-3AEA-1069-A2D8-08002B30309D}")
CLSID_MyComputer ==
    [d1hi |-> 8400, d1lo |-> 20448, data2 |-> 15082, data3 |-> 4201,
     data4 |-> <<162, 216, 8, 0, 43, 48, 48, 157>>]

\* new CLSID("{871C5380-42A0-1069-A2EA-08002B30309D}")
CLSID_Internet ==
    [d1hi |-> 34588, d1lo |-> 21376, data2 |-> 17056, data3 |-> 4201,
     data4 |-> <<162, 234, 8, 0, 43, 48, 48, 157>>]

\* new CLSID("{645FF040-5081-101B-9F08-00AA002F954E}")
CLSID_RecycleBin ==
    [d1hi |-> 25695, d1lo |-> 61504, data2 |-> 20609, data3 |-> 4123,
     data4 |-> <<159, 8, 0, 170, 0, 47, 149, 78>>]

\* new CLSID("{21EC2020-3AEA-1069-A2DD-08002B30309D}")
CLSID_ControlPanel ==
    [d1hi |-> 8684, d1lo |-> 8224, data2 |-> 15082, data3 |-> 4201,
     data4 |-> <<162, 221, 8, 0, 43, 48, 48, 157>>]

\* new CLSID("{2227A280-3AEA-1069-A2DE-08002B30309D}")
CLSID_Printers ==
    [d1hi |-> 8743, d1lo |-> 41600, data2 |-> 15082, data3 |-> 4201,
     data4 |-> <<162, 222, 8, 0, 43, 48, 48, 157>>]

\* new CLSID("{450D8FBA-AD25-11D0-98A8-0800361B1103}")
CLSID_MyDocuments ==
    [d1hi |-> 17677, d1lo |-> 36794, data2 |-> 44325, data3 |-> 4560,
     data4 |-> <<152, 168, 8, 0, 54, 27, 17, 3>>]

\* new CLSID("{00021400-0000-0000-C000-000000000046}")
CLSID_ShellDesktop ==
    [d1hi |-> 2, d1lo |-> 5120, data2 |-> 0, data3 |-> 0,
     data4 |-> <<192, 0, 0, 0, 0, 0, 0, 70>>]

\* new CLSID("{F02C1A0D-BE21-4350-88B0-7367FC96EF3C}")
CLSID_NetworkExplorerFolder ==
    [d1hi |-> 61484, d1lo |-> 6669, data2 |-> 48673, data3 |-> 17232,
     data4 |-> <<136, 176, 115, 103, 252, 150, 239, 60>>]

\* new CLSID("{1777F761-68AD-4D8A-87BD-30B759FA33DD}")
FOLDERID_Favorites ==
    [d1hi |-> 6007, d1lo |-> 63329, data2 |-> 26797, data3 |-> 19850,
     data4 |-> <<135, 189, 48, 183, 89, 250, 51, 221>>]

\* new CLSID("{031E4825-7B94-4DC3-B131-E946B44C8DD5}")
Known_CLSID_UsersLibraries ==
    [d1hi |-> 798, d1lo |-> 18469, data2 |-> 31636, data3 |-> 19907,
     data4 |-> <<177, 49, 233, 70, 180, 76, 141, 213>>]

\* new CLSID("{59031A47-3F72-44A7-89C5-5595FE6B30EE}")
Known_CLSID_UsersFiles ==
    [d1hi |-> 22787, d1lo |-> 6727, data2 |-> 16242, data3 |-> 17575,
     data4 |-> <<137, 197, 85, 149, 254, 107, 48, 238>>]

\* new CLSID("{26EE0668-A00A-44D7-9371-BEB064C98683}")
Known_CLSID_ControlPanel ==
    [d1hi |-> 9966, d1lo |-> 1640, data2 |-> 40970, data3 |-> 17623,
     data4 |-> <<147, 113, 190, 176, 100, 201, 134, 131>>]

\* The display names, as UTF-16 code units.
REGISTRY ==
    <<
       \* CLSID_MyComputer, "PC（マイコンピュータ）"
       <<CLSID_MyComputer,
         <<80, 67, 65288, 12510, 12452, 12467, 12531, 12500, 12517, 12540, 12479, 65289>>>>,
       \* CLSID_ShellDesktop, "デスクトップ"
       <<CLSID_ShellDesktop,
         <<12487, 12473, 12463, 12488, 12483, 12503>>>>,
       \* CLSID_RecycleBin, "ごみ箱"
       <<CLSID_RecycleBin,
         <<12372, 12415, 31665>>>>,
       \* CLSID_ControlPanel, "すべてのコントロール パネル項目"
       <<CLSID_ControlPanel,
         <<12377, 12409, 12390, 12398, 12467, 12531, 12488, 12525, 12540, 12523, 32, 12497, 12493, 12523, 38917, 30446>>>>,
       \* CLSID_NetworkExplorerFolder, "ネットワーク"
       <<CLSID_NetworkExplorerFolder,
         <<12493, 12483, 12488, 12527, 12540, 12463>>>>,
       \* {B4FB3F98-C1EA-428D-A78A-D1F5659CBA93}, "ホームグループ"
       <<[d1hi |-> 46331, d1lo |-> 16280, data2 |-> 49642, data3 |-> 17037, data4 |-> <<167, 138, 209, 245, 101, 156, 186, 147>>],
         <<12507, 12540, 12512, 12464, 12523, 12540, 12503>>>>,
       \* {A8CDFF1C-4878-43BE-B5FD-F8091C1C60D0}, "ドキュメント"
       <<[d1hi |-> 43213, d1lo |-> 65308, data2 |-> 18552, data3 |-> 17342, data4 |-> <<181, 253, 248, 9, 28, 28, 96, 208>>],
         <<12489, 12461, 12517, 12513, 12531, 12488>>>>,
       \* {3ADD1653-EB32-4CB0-BBD7-DFA0ABB5ACCA}, "ピクチャ"
       <<[d1hi |-> 15069, d1lo |-> 5715, data2 |-> 60210, data3 |-> 19632, data4 |-> <<187, 215, 223, 160, 171, 181, 172, 202>>],
         <<12500, 12463, 12481, 12515>>>>,
       \* {1CF1260C-4DD0-4EBB-811F-33C572699FDE}, "ミュージック"
       <<[d1hi |-> 7409, d1lo |-> 9740, data2 |-> 19920, data3 |-> 20155, data4 |-> <<129, 31, 51, 197, 114, 105, 159, 222>>],
         <<12511, 12517, 12540, 12472, 12483, 12463>>>>,
       \* {A0953C92-50DC-43BF-BE83-3742FED03C9C}, "ビデオ"
       <<[d1hi |-> 41109, d1lo |-> 15506, data2 |-> 20700, data3 |-> 17343, data4 |-> <<190, 131, 55, 66, 254, 208, 60, 156>>],
         <<12499, 12487, 12458>>>>,
       \* {D20EA4E1-3957-11D2-A40B-0C5020524153}, "管理ツール"
       <<[d1hi |-> 53774, d1lo |-> 42209, data2 |-> 14679, data3 |-> 4562, data4 |-> <<164, 11, 12, 80, 32, 82, 65, 83>>],
         <<31649, 29702, 12484, 12540, 12523>>>>,
       \* CLSID_Printers, "プリンタ"
       <<CLSID_Printers,
         <<12503, 12522, 12531, 12479>>>>,
       \* Known_CLSID_UsersLibraries, "ライブラリ"
       <<Known_CLSID_UsersLibraries,
         <<12521, 12452, 12502, 12521, 12522>>>>,
       \* Known_CLSID_UsersFiles, "ユーザープロファイル"
       <<Known_CLSID_UsersFiles,
         <<12518, 12540, 12470, 12540, 12503, 12525, 12501, 12449, 12452, 12523>>>>,
       \* Known_CLSID_ControlPanel, "コントロールパネル"
       <<Known_CLSID_ControlPanel,
         <<12467, 12531, 12488, 12525, 12540, 12523, 12497, 12493, 12523>>>>,
       \* {088E3905-0323-4B02-9826-5D99428E115F}, "ダウンロード"
       <<[d1hi |-> 2190, d1lo |-> 14597, data2 |-> 803, data3 |-> 19202, data4 |-> <<152, 38, 93, 153, 66, 142, 17, 95>>],
         <<12480, 12454, 12531, 12525, 12540, 12489>>>>
    >>

\* UsersLibraries.#REGISTRY
UsersLibraries_REGISTRY ==
    <<
       \* {7B0DB17D-9CD2-4A93-9733-46CC89022E7C}, "ドキュメント"
       <<[d1hi |-> 31501, d1lo |-> 45437, data2 |-> 40146, data3 |-> 19091, data4 |-> <<151, 51, 70, 204, 137, 2, 46, 124>>],
         <<12489, 12461, 12517, 12513, 12531, 12488>>>>,
       \* {2112AB0A-C86A-4FFE-A368-0DE96E47012E}, "ミュージック"
       <<[d1hi |-> 8466, d1lo |-> 43786, data2 |-> 51306, data3 |-> 20478, data4 |-> <<163, 104, 13, 233, 110, 71, 1, 46>>],
         <<12511, 12517, 12540, 12472, 12483, 12463>>>>,
       \* {A990AE9F-A03B-4E80-94BC-9912D7504104}, "ピクチャ"
       <<[d1hi |-> 43408, d1lo |-> 44703, data2 |-> 41019, data3 |-> 20096, data4 |-> <<148, 188, 153, 18, 215, 80, 65, 4>>],
         <<12500, 12463, 12481, 12515>>>>,
       \* {491E922F-5643-4AF4-A7EB-4E7A138D8174}, "ビデオ"
       <<[d1hi |-> 18718, d1lo |-> 37423, data2 |-> 22083, data3 |-> 19188, data4 |-> <<167, 235, 78, 122, 19, 141, 129, 116>>],
         <<12499, 12487, 12458>>>>
    >>

\* UsersFiles.#REGISTRY
UsersFiles_REGISTRY ==
    <<
       \* FOLDERID_Favorites, "お気に入り"
       <<FOLDERID_Favorites,
         <<12362, 27671, 12395, 20837, 12426>>>>
    >>

(***************************************************************************)
(* ItemIDList (idl.ts).  "data" is the buffer from the record's first byte *)
(* to the end of the whole buffer (subarray shares the storage and is not  *)
(* cut at the record's end); "off" is the view's byteOffset.               *)
(***************************************************************************)
\* A constructor that reads the length field one byte too far.
NewItemIDList_lengthAt1(data, off) ==
    IF Len(data) < 2
    THEN [err |-> "IdlError", data |-> <<>>, off |-> off, cb |-> 0, type |-> 0]
    ELSE LET cb == U16At(data, 1)
         IN  [err |-> "none", data |-> data, off |-> off, cb |-> cb,
              type |-> IF cb = 0 THEN 0 ELSE At(data, 2)]

\* new ItemIDList(data)
NewItemIDList(data, off) ==
    IF Len(data) < 2
    THEN [err |-> "IdlError", data |-> <<>>, off |-> off, cb |-> 0, type |-> 0]
    ELSE LET cb == U16At(data, 0)
         IN  [err |-> "none", data |-> data, off |-> off, cb |-> cb,
              type |-> IF cb = 0 THEN 0 ELSE At(data, 2)]

isDesktop(this) == this.cb = 0

\* getNext(): some = FALSE is the undefined the terminator yields.
Successor(n) == [err |-> n.err, some |-> TRUE, idl |-> n]

\* A getNext() that stays where it is when the length is below the header's
\* two bytes.
getNext_insideHeader(this) ==
    IF this.cb = 0
    THEN [err |-> "none", some |-> FALSE, idl |-> this]
    ELSE IF this.cb < 2
    THEN Successor(NewItemIDList(this.data, this.off))
    ELSE Successor(NewItemIDList(SubarrayFrom(this.data, this.cb), this.off + this.cb))

\* A getNext() that takes the end of the buffer for the end of the chain.
getNext_endOfBuffer(this) ==
    IF this.cb = 0 \/ Len(SubarrayFrom(this.data, this.cb)) < 2
    THEN [err |-> "none", some |-> FALSE, idl |-> this]
    ELSE Successor(NewItemIDList(SubarrayFrom(this.data, this.cb), this.off + this.cb))

getNext(this) ==
    IF this.cb = 0
    THEN [err |-> "none", some |-> FALSE, idl |-> this]
    ELSE Successor(NewItemIDList(SubarrayFrom(this.data, this.cb), this.off + this.cb))

\* A GUID read at offset 2, where the layout's comment puts it.
GUIDStruct_guid_at2(this) == CLSIDFromBytes(Subarray(this.data, 2, 2 + 16))

GUIDStruct_guid(this) == CLSIDFromBytes(Subarray(this.data, 4, 4 + 16))

ExtGUIDStruct_guid(this) == CLSIDFromBytes(Subarray(this.data, 14, 14 + 16))

\* A drive name read without the backslash that ends it.
DriveStruct_driveName_trimmed(this) == readAsciiString(Subarray(this.data, 3, 3 + 2))

DriveStruct_driveName(this) == readAsciiString(Subarray(this.data, 3, 3 + 20))

NetworkStruct_name(this) == readAsciiString(Subarray(this.data, 5, this.cb))

\* What getCLSID returns for the guid it read, or the error of the read.
SomeCLSID(g) == [err |-> g.err, some |-> TRUE, clsid |-> CLSIDValue(g)]

\* getCLSID(): some = FALSE is undefined.
getCLSID(this) ==
    IF this.type = 31 \/ this.type = 46
    THEN SomeCLSID(GUIDStruct_guid(this))
    ELSE IF this.type = 113
    THEN SomeCLSID(ExtGUIDStruct_guid(this))
    ELSE [err |-> "none", some |-> FALSE, clsid |-> CLSIDValue(CLSIDFromBytes(<<>>))]

\* FileStructW_name(): some = FALSE is undefined.  No step of it throws: a
\* read outside the array is undefined, which | and << take as 0.
NoName == [some |-> FALSE, name |-> <<>>]

\* The checks without the one of the extra length.
FileStructW_checked_noExtra(this, cbOffset, fileStructW, cbLen, extraLen, nameOffset) ==
    IF cbOffset % 2 = 1 \/ cbOffset < 2 + 1 + 12 \/ cbOffset > this.cb - 2 - 22
    THEN NoName
    ELSE IF this.cb < cbOffset + cbLen
    THEN NoName
    ELSE IF nameOffset + 2 >= Len(fileStructW)
    THEN NoName
    ELSE [some |-> TRUE,
          name |-> readString(Subarray(fileStructW, nameOffset, this.cb))]

\* The checks of FileStructW_name on the values it has read.
FileStructW_checked(this, cbOffset, fileStructW, cbLen, extraLen, nameOffset) ==
    IF cbOffset % 2 = 1 \/ cbOffset < 2 + 1 + 12 \/ cbOffset > this.cb - 2 - 22
    THEN NoName
    ELSE IF this.cb < cbOffset + cbLen
    THEN NoName
    ELSE IF this.cb > cbOffset + cbLen /\ this.cb # cbOffset + cbLen + extraLen
    THEN NoName
    ELSE IF nameOffset + 2 >= Len(fileStructW)
    THEN NoName
    ELSE [some |-> TRUE,
          name |-> readString(Subarray(fileStructW, nameOffset, this.cb))]

\* cbLen, then extraLen and nameOffset, read from fileStructW
FileStructW_lengths(this, cbOffset, fileStructW, cbLen) ==
    FileStructW_checked(this, cbOffset, fileStructW, cbLen,
                        U16At(fileStructW, cbLen), U16At(fileStructW, 16))

\* fileStructW = this.data.subarray(cbOffset, this.cb)
FileStructW_at(this, cbOffset) ==
    FileStructW_lengths(this, cbOffset, Subarray(this.data, cbOffset, this.cb),
                        U16At(Subarray(this.data, cbOffset, this.cb), 0))

FileStructW_name(this) == FileStructW_at(this, U16At(this.data, this.cb - 2))

RECURSIVE RegistryLookup(_, _, _)
RegistryLookup(registry, clsid, i) ==
    IF i > Len(registry) THEN [some |-> FALSE, name |-> <<>>]
    ELSE IF CLSID_equals(registry[i][1], clsid)
    THEN [some |-> TRUE, name |-> registry[i][2]]
    ELSE RegistryLookup(registry, clsid, i + 1)

\* getClassName(clsid): the registered name, else `::${clsid}`
NameOr(r, clsid) == IF r.some THEN r.name ELSE <<58, 58>> \o CLSID_toString(clsid)

getClassName(clsid) == NameOr(RegistryLookup(REGISTRY, clsid, 1), clsid)

\* getClassName(riid), or the error the read of riid threw
ClassNameOf(riid) ==
    IF riid.err # "none"
    THEN [err |-> riid.err, text |-> <<>>]
    ELSE [err |-> "none", text |-> getClassName(CLSIDValue(riid))]

\* getText() with the tag looked at before the name.
TextOr_tagFirst(this, fileNameW) ==
    IF this.type \in {35, 37, 41, 47}
    THEN [err |-> "none", text |-> DriveStruct_driveName(this)]
    ELSE IF fileNameW.some
    THEN [err |-> "none", text |-> fileNameW.name]
    ELSE [err |-> "none", text |-> <<>>]

\* getText() once FileStructW_name has yielded fileNameW
TextOr(this, fileNameW) ==
    IF fileNameW.some
    THEN [err |-> "none", text |-> fileNameW.name]
    ELSE IF this.type \in {35, 37, 41, 47}
    THEN [err |-> "none", text |-> DriveStruct_driveName(this)]
    ELSE IF this.type \in {31, 46, 113}
    THEN ClassNameOf(IF this.type # 113 THEN GUIDStruct_guid(this)
                     ELSE ExtGUIDStruct_guid(this))
    \* console.log(... this.type.toString(16) ...): a TypeError when the
    \* type byte was read outside the buffer
    ELSE IF this.type = Undefined
    THEN [err |-> "TypeError", text |-> <<>>]
    ELSE [err |-> "none", text |-> <<>>]

\* getText()
getText(this) == TextOr(this, FileStructW_name(this))

(***************************************************************************)
(* Path and the strategies.  buildPath yields [err, path]: the path after  *)
(* the call, or the error it threw.                                        *)
(***************************************************************************)
\* An append that does not look at how the path ends.
Path_append_always(this, path) ==
    IF this # <<>> THEN this \o <<92>> \o path ELSE this \o path

Path_append(this, path) ==
    IF this # <<>> /\ this[Len(this)] # 92
    THEN this \o <<92>> \o path
    ELSE this \o path

Threw(e) == [err |-> e, path |-> <<>>]

Built(p) == [err |-> "none", path |-> p]

RECURSIVE FS_buildPath(_, _)

\* The loop body of FS.buildPath on the text and the successor it has read
FS_step(path, t, next) ==
    IF t.err # "none" THEN Threw(t.err)
    ELSE IF next.err # "none" THEN Threw(next.err)
    ELSE IF next.some
    THEN FS_buildPath(Path_append(path, t.text), next.idl)
    ELSE Built(Path_append(path, t.text))

FS_buildPath(path, idl) ==
    IF isDesktop(idl) THEN Built(path) ELSE FS_step(path, getText(idl), getNext(idl))

\* if (next !== undefined) FS.buildPath(path, next)
FS_rest(path, next) ==
    IF next.err # "none" THEN Threw(next.err)
    ELSE IF next.some THEN FS_buildPath(path, next.idl)
    ELSE Built(path)

\* The tail shared by the strategies: const next = idl.getNext(); if (next
\* !== undefined) FS.buildPath(path, next)
ThenFS(path, idl) == FS_rest(path, getNext(idl))

ControlPanel_built(p1, idl, clsid, t) ==
    IF isDesktop(idl) THEN Built(p1)
    ELSE IF clsid.err # "none" THEN Threw(clsid.err)
    ELSE IF clsid.some
    THEN ThenFS(Path_append(p1, getClassName(clsid.clsid)), idl)
    ELSE IF t.err # "none" THEN Threw(t.err)
    ELSE ThenFS(Path_append(p1, t.text), idl)

ControlPanel_buildPath(path, idl) ==
    ControlPanel_built(Path_append(path, getClassName(CLSID_ControlPanel)), idl,
                       getCLSID(idl), getText(idl))

MyComputer_built(path, idl, t) ==
    IF t.err # "none" THEN Threw(t.err) ELSE ThenFS(Path_append(path, t.text), idl)

MyComputer_buildPath(path, idl) ==
    IF isDesktop(idl)
    THEN Built(Path_append(path, getClassName(CLSID_MyComputer)))
    ELSE MyComputer_built(path, idl, getText(idl))

NetworkExplorerFolder_built(path, idl, next, t) ==
    IF next.err # "none" THEN Threw(next.err)
    ELSE IF isDesktop(idl) \/ ~next.some \/ isDesktop(next.idl)
    THEN Built(Path_append(path, getClassName(CLSID_NetworkExplorerFolder)))
    ELSE IF t.err # "none" THEN Threw(t.err)
    ELSE ThenFS(Path_append(path, t.text), next.idl)

\* The name taken from the record the strategy was handed, not from its
\* successor.
NetworkExplorerFolder_name_current(path, idl, next) ==
    NetworkExplorerFolder_built(path, idl, next,
        IF idl.type = 195
        THEN [err |-> "none", text |-> NetworkStruct_name(idl)]
        ELSE getText(idl))

NetworkExplorerFolder_name(path, idl, next) ==
    NetworkExplorerFolder_built(path, idl, next,
        IF next.idl.type = 195
        THEN [err |-> "none", text |-> NetworkStruct_name(next.idl)]
        ELSE getText(next.idl))

NetworkExplorerFolder_buildPath(path, idl) ==
    NetworkExplorerFolder_name(path, idl, getNext(idl))

\* The body UsersLibraries and UsersFiles share, each with its own root
\* CLSID and its own table.
UsersFolder_built(p1, idl, clsid, known, t) ==
    IF isDesktop(idl) THEN Built(p1)
    ELSE IF idl.type = 0
    THEN IF clsid.err # "none" THEN Threw(clsid.err)
         ELSE ThenFS(Path_append(p1, NameOr(known, CLSIDValue(clsid))), idl)
    ELSE IF t.err # "none" THEN Threw(t.err)
    ELSE ThenFS(Path_append(p1, t.text), idl)

UsersFolder_known(root, registry, path, idl, clsid) ==
    UsersFolder_built(Path_append(path, getClassName(root)), idl, clsid,
                      RegistryLookup(registry, CLSIDValue(clsid), 1), getText(idl))

UsersFolder_buildPath(root, registry, path, idl) ==
    UsersFolder_known(root, registry, path, idl, ExtGUIDStruct_guid(idl))

UsersLibraries_buildPath(path, idl) ==
    UsersFolder_buildPath(Known_CLSID_UsersLibraries, UsersLibraries_REGISTRY, path, idl)

UsersFiles_buildPath(path, idl) ==
    UsersFolder_buildPath(Known_CLSID_UsersFiles, UsersFiles_REGISTRY, path, idl)

ControlPanel2_built(p1, idl, n1, n2) ==
    IF isDesktop(idl) THEN Built(p1)
    \* idl.getNext()?.getNext()
    ELSE IF n1.err # "none" THEN Threw(n1.err)
    ELSE IF ~n1.some THEN Built(p1)
    ELSE IF n2.err # "none" THEN Threw(n2.err)
    ELSE IF n2.some THEN FS_buildPath(p1, n2.idl)
    ELSE Built(p1)

ControlPanel2_second(path, idl, n1) ==
    ControlPanel2_built(Path_append(path, getClassName(Known_CLSID_ControlPanel)), idl,
                        n1, getNext(n1.idl))

ControlPanel2_buildPath(path, idl) == ControlPanel2_second(path, idl, getNext(idl))

CLSIDTable ==
    <<
       <<CLSID_ControlPanel, "ControlPanel">>,
       <<CLSID_MyComputer, "MyComputer">>,
       <<CLSID_ShellDesktop, "Desktop">>,
       <<CLSID_NetworkExplorerFolder, "NetworkExplorerFolder">>,
       <<Known_CLSID_UsersLibraries, "UsersLibraries">>,
       <<Known_CLSID_UsersFiles, "UsersFiles">>,
       <<Known_CLSID_ControlPanel, "ControlPanel2">>
    >>

\* getItem(clsid): the strategy's name, "undefined" when none is registered.
ItemOr(r) == IF r.some THEN r.name ELSE "undefined"

getItem(clsid) == ItemOr(RegistryLookup(CLSIDTable, clsid, 1))

RECURSIVE Desktop_buildPath(_, _)

\* item.buildPath(path, idl)
Item_buildPath(item, path, idl) ==
    CASE item = "ControlPanel" -> ControlPanel_buildPath(path, idl)
      [] item = "MyComputer" -> MyComputer_buildPath(path, idl)
      [] item = "Desktop" -> Desktop_buildPath(path, idl)
      [] item = "NetworkExplorerFolder" -> NetworkExplorerFolder_buildPath(path, idl)
      [] item = "UsersLibraries" -> UsersLibraries_buildPath(path, idl)
      [] item = "UsersFiles" -> UsersFiles_buildPath(path, idl)
      [] item = "ControlPanel2" -> ControlPanel2_buildPath(path, idl)

\* A delegation that starts one record later.
Desktop_built_later(path, next, clsid, t, item) ==
    IF next.err # "none" THEN Threw(next.err)
    ELSE IF clsid.err # "none" THEN Threw(clsid.err)
    ELSE IF ~next.some
    THEN IF clsid.some
         THEN Built(Path_append(path, getClassName(clsid.clsid)))
         ELSE IF t.err # "none" THEN Threw(t.err)
         ELSE Built(Path_append(path, t.text))
    ELSE IF clsid.some /\ item # "undefined"
    THEN Item_buildPath(item, path, getNext(next.idl).idl)
    ELSE IF clsid.some
    THEN FS_buildPath(Path_append(path, getClassName(clsid.clsid)), next.idl)
    ELSE FS_buildPath(path, next.idl)

Desktop_built(path, next, clsid, t, item) ==
    IF next.err # "none" THEN Threw(next.err)
    ELSE IF clsid.err # "none" THEN Threw(clsid.err)
    ELSE IF ~next.some
    THEN IF clsid.some
         THEN Built(Path_append(path, getClassName(clsid.clsid)))
         ELSE IF t.err # "none" THEN Threw(t.err)
         ELSE Built(Path_append(path, t.text))
    ELSE IF clsid.some /\ item # "undefined"
    THEN Item_buildPath(item, path, next.idl)
    ELSE IF clsid.some
    THEN FS_buildPath(Path_append(path, getClassName(clsid.clsid)), next.idl)
    ELSE FS_buildPath(path, next.idl)

Desktop_item(path, idl, clsid) ==
    Desktop_built(path, getNext(idl), clsid, getText(idl), getItem(clsid.clsid))

Desktop_buildPath(path, idl) ==
    IF isDesktop(idl)
    THEN Built(Path_append(path, getClassName(CLSID_ShellDesktop)))
    ELSE Desktop_item(path, idl, getCLSID(idl))

getPathFromIDList(idl) == Desktop_buildPath(<<>>, idl)

\* getPathFromItemID(itemID): [err, path]
PathFrom(idl) == IF idl.err # "none" THEN Threw(idl.err) ELSE getPathFromIDList(idl)

getPathFromItemID(itemID) == PathFrom(NewItemIDList(itemID, 0))

(***************************************************************************)
(* The OCS section tree and Ocs.parse (orchis.ts, the variant of lines     *)
(* 339-653).  An OcsValue is a record tagged by the type the source tests  *)
(* for: "number" (NaN included, as Number.parseInt yields it), "string",   *)
(* "bytes", "section", and "undefined" for a key the section lacks.  A     *)
(* section's keys and values are the function kv.                          *)
(***************************************************************************)
Absent == [t |-> "undefined"]

Num(n) == [t |-> "number", nan |-> FALSE, n |-> n]

NaN == [t |-> "number", nan |-> TRUE, n |-> 0]

Str(s) == [t |-> "string", s |-> s]

Bytes(b) == [t |-> "bytes", b |-> b]

Section(kv) == [t |-> "section", kv |-> kv]

\* section[key]
Get(section, key) ==
    IF key \in DOMAIN section.kv THEN section.kv[key] ELSE Absent

\* The section with section[key] = value; Absent as the value removes the key.
SetKey(section, key, value) ==
    IF value.t = "undefined"
    THEN Section([k \in DOMAIN section.kv \ {key} |-> section.kv[k]])
    ELSE Section([k \in DOMAIN section.kv \cup {key} |->
                    IF k = key THEN value ELSE section.kv[k]])

\* {}
EmptySection == Section([k \in {} |-> Absent])

\* ocsIsSection(value), joined with the truthiness test that goes before it
ocsIsSection(value) == value.t = "section"

IsNumber(value) == value.t = "number"

\* A test for presence in place of typeof value === "string"
IsString_defined(value) == value.t # "undefined"

IsString(value) == value.t = "string"

IsBytes(value) == value.t = "bytes"

\* switch (item["Type"] ?? 0): an absent Type taken as 0
TypeIs_absentIsZero(value, n) ==
    \/ value.t = "undefined" /\ n = 0
    \/ value.t = "number" /\ ~value.nan /\ value.n = n

\* item["Type"] === n of the switch: NaN equals no case.
TypeIs(value, n) == IsNumber(value) /\ ~value.nan /\ value.n = n

\* i < count and i <= count of the loops: false for NaN.
Below(i, count) == ~count.nan /\ i < count.n

\* i <= count
AtMost(i, count) == ~count.nan /\ i <= count.n

\* The string and the bytes a value holds once its type is tested.
StrOf(value) == IF value.t = "string" THEN value.s ELSE <<>>

BytesOf(value) == IF value.t = "bytes" THEN value.b ELSE <<>>

\* The field of an object that holds a string or undefined.
Optional(value) == [defined |-> value.t # "undefined", s |-> StrOf(value)]

RECURSIVE parseItem(_)
RECURSIVE parseItems(_, _, _, _)

\* The loop with "continue" in place of the throw for a child that is no
\* section.
RECURSIVE parseItems_skipAbsent(_, _, _, _)
parseItems_skipAbsent(section, i, count, message) ==
    IF ~Below(i, count)
    THEN [err |-> "none", message |-> "", items |-> <<>>]
    ELSE LET item == Get(section, ToString(i))
             first == parseItem(item)
             rest == parseItems_skipAbsent(section, i + 1, count, message)
         IN  IF ~ocsIsSection(item) THEN rest
             ELSE IF first.err # "none"
             THEN [err |-> first.err, message |-> first.message, items |-> <<>>]
             ELSE IF rest.err # "none" THEN rest
             ELSE [err |-> "none", message |-> "", items |-> <<first.item>> \o rest.items]

\* for (let i = ...; i < items; i++) { ... ocsItems.push(parseItem(item)) }
\* of parseMenu and of parseItem's case 3: [err, message, items]
parseItems(section, i, count, message) ==
    IF ~Below(i, count)
    THEN [err |-> "none", message |-> "", items |-> <<>>]
    ELSE LET item == Get(section, ToString(i))
             first == parseItem(item)
             rest == parseItems(section, i + 1, count, message)
         IN  IF ~ocsIsSection(item)
             THEN [err |-> "OcsError", message |-> message, items |-> <<>>]
             ELSE IF first.err # "none"
             THEN [err |-> first.err, message |-> first.message, items |-> <<>>]
             ELSE IF rest.err # "none" THEN rest
             ELSE [err |-> "none", message |-> "", items |-> <<first.item>> \o rest.items]

\* parseItem(item): [err, message, item]
parseItem(item) ==
    LET type == Get(item, "Type")
        itemID == Get(item, "ItemID")
        caption == Get(item, "Caption")
        parameter == Get(item, "Parameter")
        verb == Get(item, "Verb")
        showCmd == Get(item, "ShowCmd")
        items == Get(item, "Items")
        id == Get(item, "ID")
        sub == parseItems(item, 0, items, "Submenu element")
        Throw(message) == [err |-> "OcsError", message |-> message,
                           item |-> [kind |-> "none"]]
        Return(object) == [err |-> "none", message |-> "", item |-> object]
    IN  IF TypeIs(type, 0)
        THEN IF ~(IsBytes(itemID) /\ IsString(caption)) THEN Throw("Launch item")
             ELSE IF ~(parameter.t = "undefined" \/ IsString(parameter)) THEN Throw("Launch item")
             ELSE IF ~(verb.t = "undefined" \/ IsString(verb)) THEN Throw("Launch item")
             ELSE IF ~IsNumber(showCmd) THEN Throw("Launch item")
             ELSE Return([kind |-> "Launch", itemID |-> BytesOf(itemID), caption |-> StrOf(caption),
                          parameter |-> Optional(parameter), verb |-> Optional(verb),
                          showCmd |-> showCmd])
        ELSE IF TypeIs(type, 1)
        THEN IF ~(IsBytes(itemID) /\ IsString(caption)) THEN Throw("Folder item")
             ELSE Return([kind |-> "Folder", itemID |-> BytesOf(itemID), caption |-> StrOf(caption)])
        ELSE IF TypeIs(type, 2)
        THEN Return([kind |-> "Separator"])
        ELSE IF TypeIs(type, 3)
        THEN IF ~(IsString(caption) /\ IsNumber(items)) THEN Throw("Submenu item")
             ELSE IF sub.err # "none" THEN Throw(sub.message)
             ELSE Return([kind |-> "Submenu", caption |-> StrOf(caption), items |-> sub.items])
        ELSE IF TypeIs(type, 4)
        THEN IF ~(IsNumber(id) /\ IsString(caption)) THEN Throw("Special item")
             ELSE Return([kind |-> "Special", id |-> id, caption |-> StrOf(caption)])
        ELSE Return([kind |-> "Unknown"])

\* parseMenu(menu): [err, message, items]
parseMenu(menu) ==
    LET items == Get(menu, "Items")
    IN  IF ~IsNumber(items)
        THEN [err |-> "OcsError", message |-> "Menu", items |-> <<>>]
        ELSE parseItems(menu, 0, items, "Menu element")

\* parseLauncher(launcher): [err, message, launcher]
parseLauncher(launcher) ==
    LET title == Get(launcher, "Title")
        menu == Get(launcher, "Menu")
        ocsItems == parseMenu(menu)
    IN  IF ~(IsString(title) /\ menu.t # "undefined" /\ ocsIsSection(menu))
        THEN [err |-> "OcsError", message |-> "Launcher", launcher |-> [title |-> <<>>, items |-> <<>>]]
        ELSE IF ocsItems.err # "none"
        THEN [err |-> "OcsError", message |-> ocsItems.message,
              launcher |-> [title |-> <<>>, items |-> <<>>]]
        ELSE [err |-> "none", message |-> "",
              launcher |-> [title |-> StrOf(title), items |-> ocsItems.items]]

\* for (let i = 1; i <= launcherCount; i++) { ... } of parseRoot
RECURSIVE parseLaunchers(_, _, _)
parseLaunchers(launchers, i, launcherCount) ==
    IF ~AtMost(i, launcherCount)
    THEN [err |-> "none", message |-> "", launchers |-> <<>>]
    ELSE LET launcher == Get(launchers, ToString(i))
             first == parseLauncher(launcher)
             rest == parseLaunchers(launchers, i + 1, launcherCount)
         IN  IF ~ocsIsSection(launcher)
             THEN [err |-> "OcsError", message |-> "Launcher element", launchers |-> <<>>]
             ELSE IF first.err # "none"
             THEN [err |-> first.err, message |-> first.message, launchers |-> <<>>]
             ELSE IF rest.err # "none" THEN rest
             ELSE [err |-> "none", message |-> "",
                   launchers |-> <<first.launcher>> \o rest.launchers]

\* parseRoot(root): [err, message, launchers], launchers being the Ocs
parseRoot(root) ==
    LET launchers == Get(root, "Launchers")
        launcherCount == Get(launchers, "LauncherCount")
    IN  IF ~ocsIsSection(launchers)
        THEN [err |-> "OcsError", message |-> "Launchers", launchers |-> <<>>]
        ELSE IF ~IsNumber(launcherCount)
        THEN [err |-> "OcsError", message |-> "LauncherCount", launchers |-> <<>>]
        ELSE parseLaunchers(launchers, 1, launcherCount)

\* Ocs.parse, from the section tree parseOcs returns
Ocs_parse(root) == parseRoot(root)
(***************************************************************************)
(* The menu items' display names and the application (app.ts).  An item    *)
(* object is known by its id: the index of its launcher followed by its    *)
(* indices in the menu and the submenus.  The fixed texts of the info      *)
(* panel are written as tokens.                                            *)
(***************************************************************************)
\* #displayName of an item that has not resolved its name
NotCached == [defined |-> FALSE, s |-> <<>>]

\* this.#displayName ??= r, r being what getPathFromItemID yielded:
\* [err, value, cached (the field afterwards), decoded (the decoder ran)]
Assigned(cached, r) ==
    IF r.err # "none"
    THEN [err |-> r.err, value |-> <<>>, cached |-> cached, decoded |-> TRUE]
    ELSE [err |-> "none", value |-> r.path,
          cached |-> [defined |-> TRUE, s |-> r.path], decoded |-> TRUE]

\* return this.#displayName ??= idl.getPathFromItemID(this.itemID)
OcsItemLaunch_displayName(cached, bytes) ==
    IF cached.defined
    THEN [err |-> "none", value |-> cached.s, cached |-> cached, decoded |-> FALSE]
    ELSE Assigned(cached, getPathFromItemID(bytes))

OcsItemFolder_displayName(cached, bytes) ==
    IF cached.defined
    THEN [err |-> "none", value |-> cached.s, cached |-> cached, decoded |-> FALSE]
    ELSE Assigned(cached, getPathFromItemID(bytes))

\* verbString(): the verb itself unless it is undefined or "open" or "runas"
verbString(verb) ==
    IF ~verb.defined \/ verb.s = <<111, 112, 101, 110>> THEN [text |-> "open", s |-> <<>>]
    ELSE IF verb.s = <<114, 117, 110, 97, 115>> THEN [text |-> "runas", s |-> <<>>]
    ELSE [text |-> "verb", s |-> verb.s]

\* showCmdString(): an entry of #SHOW_CMD, or undefined
showCmdString(showCmd) ==
    IF ~showCmd.nan /\ showCmd.n >= 1 /\ showCmd.n <= 3
    THEN <<"normal", "minimized", "maximized">>[showCmd.n]
    ELSE "undefined"

\* The keys of OcsItemSpecial.#ITEMS
SpecialIDs == {144, 138, 143, 142, 146, 176, 133, 181, 183, 185, 186, 182, 270, 161, 173, 168, 175}

\* description(): #ITEMS[this.id] ?? the text for an unknown special item
description(id) ==
    IF ~id.nan /\ id.n \in SpecialIDs THEN [known |-> TRUE, id |-> id.n]
    ELSE [known |-> FALSE, id |-> 0]

\* The item objects of a menu with their ids, in the order #createItem
\* pushes them to #items: an item, then the items of its submenu.
RECURSIVE createItems(_, _, _)
createItems(objects, parent, i) ==
    IF i > Len(objects) THEN <<>>
    ELSE LET id == parent \o <<i>>
             object == objects[i]
         IN  <<[id |-> id, object |-> object]>>
             \o (IF object.kind = "Submenu" THEN createItems(object.items, id, 1) ELSE <<>>)
             \o createItems(objects, parent, i + 1)

\* #processLauncher: the children of #eLauncher are replaced, #items grows.
processLauncher(this, l) ==
    [this EXCEPT
        !.eLauncher = [first |-> Len(this.items), selected |-> 0 - 1, locked |-> FALSE],
        !.items = this.items \o createItems(this.ocs.launchers[l].items, <<l>>, 1)]

\* The ids of the Launch and Folder items of a parsed tree.
NamedIDs(launchers) ==
    UNION { { e.id : e \in { x \in { createItems(launchers[l].items, <<l>>, 1)[k] :
                                       k \in 1..Len(createItems(launchers[l].items, <<l>>, 1)) } :
                               x.object.kind \in {"Launch", "Folder"} } } :
            l \in 1..Len(launchers) }

\* The application once the parsed tree is assigned and the elements are
\* cleared and filled with the launchers' options.
Shown(this, parsed) ==
    [this EXCEPT
        !.ocs = [defined |-> TRUE, launchers |-> parsed.launchers],
        !.displayNames = [id \in NamedIDs(parsed.launchers) |-> NotCached],
        !.items = <<>>,
        !.eLauncherSelect =
            [options |-> [ l \in 1..Len(parsed.launchers) |-> parsed.launchers[l].title ],
             selectedIndex |-> IF Len(parsed.launchers) > 0 THEN 0 ELSE 0 - 1],
        !.eLauncher = [first |-> 0, selected |-> 0 - 1, locked |-> FALSE],
        !.eInfo = [shown |-> FALSE],
        !.loaded = TRUE]

\* The body of processText with the clearing moved in front of the catch
Processed_clearFirst(this, parsed) ==
    IF parsed.err = "OcsError"
    THEN [this |-> Shown(this, parsed), alert |-> parsed.message, escaped |-> "none"]
    ELSE IF parsed.err # "none"
    THEN [this |-> Shown(this, parsed), alert |-> "", escaped |-> parsed.err]
    ELSE IF Len(parsed.launchers) > 0
    THEN [this |-> processLauncher(Shown(this, parsed), 1), alert |-> "", escaped |-> "none"]
    ELSE [this |-> Shown(this, parsed), alert |-> "", escaped |-> "none"]

\* The body of processText, parsed being what Ocs.parse yielded:
\* [this (the application afterwards), alert, escaped]
Processed(this, parsed) ==
    IF parsed.err = "OcsError"
    THEN [this |-> this, alert |-> parsed.message, escaped |-> "none"]
    ELSE IF parsed.err # "none"
    THEN [this |-> this, alert |-> "", escaped |-> parsed.err]
    ELSE IF Len(parsed.launchers) > 0
    THEN [this |-> processLauncher(Shown(this, parsed), 1), alert |-> "", escaped |-> "none"]
    ELSE [this |-> Shown(this, parsed), alert |-> "", escaped |-> "none"]

\* processText(text)
processText(this, text) == Processed(this, Ocs_parse(text))

\* toBin(arr): two hexadecimal digits for each byte
toBin(arr) == [ i \in 1..Len(arr) |-> <<arr[i] \div 16, arr[i] % 16>> ]

\* try { path = item.displayName() } without its catch
tryDisplayName_noCatch(name) ==
    [error |-> "none", text |-> name.value, escaped |-> name.err,
     cached |-> name.cached, decoded |-> name.decoded]

\* try { path = item.displayName() } catch (e) { path = the error text }
tryDisplayName(name) ==
    [error |-> name.err, text |-> name.value, escaped |-> "none",
     cached |-> name.cached, decoded |-> name.decoded]

\* What #createInfo yields: [some, info, this, decoded (the ids whose
\* decoder ran), escaped (the exception that left the method)]
Made(info, this) ==
    [some |-> TRUE, info |-> info, this |-> this, decoded |-> <<>>, escaped |-> "none"]

NotMade(this) ==
    [some |-> FALSE, info |-> [shown |-> FALSE], this |-> this, decoded |-> <<>>,
     escaped |-> "none"]

\* The rest of #createInfo for a Folder or Launch item, path being what the
\* try statement left.
Named(this, entry, path, info) ==
    IF path.escaped # "none"
    THEN [some |-> FALSE, info |-> [shown |-> FALSE],
          this |-> [this EXCEPT !.displayNames[entry.id] = path.cached],
          decoded |-> IF path.decoded THEN <<entry.id>> ELSE <<>>,
          escaped |-> path.escaped]
    ELSE [some |-> TRUE,
          info |-> [info EXCEPT !.ref = [error |-> path.error, text |-> path.text]],
          this |-> [this EXCEPT !.displayNames[entry.id] = path.cached],
          decoded |-> IF path.decoded THEN <<entry.id>> ELSE <<>>,
          escaped |-> "none"]

NoPath == [error |-> "none", text |-> <<>>]

\* #createInfo(item)
createInfo(this, entry) ==
    LET object == entry.object
    IN  IF object.kind = "Submenu"
        THEN Made([shown |-> TRUE, id |-> entry.id, kind |-> "Submenu",
                   caption |-> object.caption, count |-> Len(object.items)], this)
        ELSE IF object.kind = "Folder"
        THEN Named(this, entry,
                   tryDisplayName(OcsItemFolder_displayName(this.displayNames[entry.id],
                                                            object.itemID)),
                   [shown |-> TRUE, id |-> entry.id, kind |-> "Folder",
                    caption |-> object.caption, ref |-> NoPath,
                    itemID |-> IF this.debug THEN toBin(object.itemID) ELSE <<>>])
        ELSE IF object.kind = "Launch"
        THEN Named(this, entry,
                   tryDisplayName(OcsItemLaunch_displayName(this.displayNames[entry.id],
                                                            object.itemID)),
                   [shown |-> TRUE, id |-> entry.id, kind |-> "Launch",
                    caption |-> object.caption, ref |-> NoPath,
                    parameter |-> object.parameter,
                    size |-> showCmdString(object.showCmd),
                    verb |-> verbString(object.verb),
                    itemID |-> IF this.debug THEN toBin(object.itemID) ELSE <<>>])
        ELSE IF object.kind = "Special"
        THEN Made([shown |-> TRUE, id |-> entry.id, kind |-> "Special",
                   caption |-> object.caption, content |-> description(object.id)], this)
        ELSE NotMade(this)

\* The rest of #selectItem, eInfo being what #createInfo yielded:
\* [ok, this, decoded, escaped]
Selected(index, eInfo) ==
    IF ~eInfo.some
    THEN [ok |-> FALSE, this |-> eInfo.this, decoded |-> eInfo.decoded,
          escaped |-> eInfo.escaped]
    ELSE [ok |-> TRUE,
          this |-> [eInfo.this EXCEPT !.eLauncher.selected = index, !.eInfo = eInfo.info],
          decoded |-> eInfo.decoded, escaped |-> "none"]

\* #selectItem(eItem, item)
selectItem(this, index, entry) == Selected(index, createInfo(this, entry))

\* The handler returns at once.
Returned(this) == [ok |-> FALSE, this |-> this, decoded |-> <<>>, escaped |-> "none"]

\* this.#items[index], undefined outside the array
ItemAt(this, index) ==
    IF index >= 0 /\ index < Len(this.items)
    THEN [some |-> TRUE, entry |-> this.items[index + 1]]
    ELSE [some |-> FALSE, entry |-> [id |-> <<>>, object |-> [kind |-> "none"]]]

\* The "mouseover" listener of #eLauncher; target is the data-index of the
\* closest .item of e.target, -1 when there is none.
onMouseover(this, target) ==
    IF this.eLauncher.locked THEN Returned(this)
    ELSE IF target < 0 THEN Returned(this)
    ELSE IF ~ItemAt(this, target).some THEN Returned(this)
    ELSE selectItem(this, target, ItemAt(this, target).entry)

\* if (this.#selectItem(eItem, item) && doLock) eItem.classList.add("locked")
Locked(selection, doLock) ==
    IF selection.ok /\ doLock THEN [selection EXCEPT !.this.eLauncher.locked = TRUE]
    ELSE selection

\* The application once the selected item has lost the class "locked".
Unlocked(this) ==
    IF this.eLauncher.selected >= 0 THEN [this EXCEPT !.eLauncher.locked = FALSE] ELSE this

\* The "click" listener of #eLauncher.
onClick(this, target) ==
    LET currentIndex == this.eLauncher.selected
        doLock == currentIndex >= 0 /\ (currentIndex # target \/ ~this.eLauncher.locked)
    IN  IF target < 0 THEN Returned(this)
        ELSE IF ~ItemAt(this, target).some THEN Returned(this)
        ELSE Locked(selectItem(Unlocked(this), target, ItemAt(this, target).entry), doLock)

\* The "input" listener of #eLauncherSelect, the option chosen being
\* selectedIndex.
onLauncherInput(this, selectedIndex) ==
    LET chosen == [this EXCEPT !.eLauncherSelect.selectedIndex = selectedIndex]
    IN  IF this.ocs.defined /\ selectedIndex >= 0
                            /\ selectedIndex < Len(this.ocs.launchers)
        THEN processLauncher(chosen, selectedIndex + 1)
        ELSE chosen


(***************************************************************************)
(* parseOcs: the text of a file, line by line, into objects.  A line is    *)
(* the sequence of its tokens: the characters [ ] \ = : , # and the words  *)
(* between them.  The objects are those of the JavaScript heap: plain      *)
(* objects made by {} inherit from Object.prototype, and obj[key] reads    *)
(* through the prototype chain.                                            *)
(***************************************************************************)

\* null
Null == [t |-> "null"]

\* A reference to the object heap[id]; typeof is "object".
Ref(id) == [t |-> "section", id |-> id]

\* Object.prototype in the heap.
ObjectPrototype == 1

\* The object `data` of parseOcs in the heap.
Data == 2

\* {}: no own property, the prototype is Object.prototype.
NewObject == [own |-> [k \in {} |-> Absent], proto |-> ObjectPrototype]

\* The heap when parseOcs has made `data`: Object.prototype, whose own
\* properties are not among the keys of the model and whose prototype is
\* null (0), and `data`.
InitialHeap == << [own |-> [k \in {} |-> Absent], proto |-> 0], NewObject >>

\* obj[key] for the object heap[id]: __proto__ is the accessor of
\* Object.prototype, any other key is looked up along the prototype chain.
RECURSIVE GetProperty(_, _, _)
GetProperty(heap, id, key) ==
    IF key = "__proto__"
    THEN IF heap[id].proto = 0 THEN Null ELSE Ref(heap[id].proto)
    ELSE IF key \in DOMAIN heap[id].own THEN heap[id].own[key]
    ELSE IF heap[id].proto = 0 THEN Absent
    ELSE GetProperty(heap, heap[id].proto, key)

\* obj[key] = value for the object heap[id]: [err, heap].  The setter of
\* __proto__ replaces the prototype by an object, ignores a primitive and
\* throws on Object.prototype, whose prototype is immutable (no Uint8Array
\* is assigned to __proto__ by the lines of the model); any other key
\* becomes an own property.
SetProperty(heap, id, key, value) ==
    IF key # "__proto__"
    THEN [err |-> "none",
          heap |-> [heap EXCEPT ![id].own =
                      [k \in DOMAIN heap[id].own \cup {key} |->
                         IF k = key THEN value ELSE heap[id].own[k]]]]
    ELSE IF value.t # "section" THEN [err |-> "none", heap |-> heap]
    ELSE IF id = ObjectPrototype THEN [err |-> "TypeError", heap |-> heap]
    ELSE [err |-> "none", heap |-> [heap EXCEPT ![id].proto = value.id]]

\* The truthiness of a value.
Truthy(value) ==
    IF value.t = "number" THEN ~value.nan /\ value.n # 0
    ELSE IF value.t = "string" THEN value.s # <<>>
    ELSE value.t \in {"bytes", "section"}

\* The string of a sequence of tokens.
RECURSIVE TextOf(_)
TextOf(tokens) ==
    IF tokens = <<>> THEN "" ELSE Head(tokens) \o TextOf(Tail(tokens))

\* tokens.split(sep): the sequences of tokens between the separators.
RECURSIVE Split(_, _)
Split(tokens, sep) ==
    IF \A i \in 1..Len(tokens) : tokens[i] # sep THEN <<tokens>>
    ELSE LET at == CHOOSE i \in 1..Len(tokens) :
                      tokens[i] = sep /\ \A j \in 1..(i - 1) : tokens[j] # sep
         IN  <<SubSeq(tokens, 1, at - 1)>> \o Split(SubSeq(tokens, at + 1, Len(tokens)), sep)

\* line.match(/^\[([^\]]+)\]$/)
IsHeader(line) ==
    /\ Len(line) >= 3
    /\ line[1] = "["
    /\ line[Len(line)] = "]"
    /\ \A i \in 2..(Len(line) - 1) : line[i] # "]"

\* m[1].split("\\"): the keys of a header line
HeaderKeys(line) ==
    LET parts == Split(SubSeq(line, 2, Len(line) - 1), "\\")
    IN  [ i \in 1..Len(parts) |-> TextOf(parts[i]) ]

\* The words of two lower-case letters.
LowerPairs == {"dw", "ws", "bn", "xx"}

\* The place of the first = of a line, 0 when it has none.
FirstEquals(line) ==
    IF \A i \in 1..Len(line) : line[i] # "=" THEN 0
    ELSE CHOOSE i \in 1..Len(line) : line[i] = "=" /\ \A j \in 1..(i - 1) : line[j] # "="

\* line.match(/^([^=]+)=([a-z]{2}):(.*)$/)
IsValueLine(line) ==
    /\ FirstEquals(line) >= 2
    /\ Len(line) >= FirstEquals(line) + 2
    /\ line[FirstEquals(line) + 1] \in LowerPairs
    /\ line[FirstEquals(line) + 2] = ":"

\* const [, key, type, value] = m
ValueKey(line) == TextOf(SubSeq(line, 1, FirstEquals(line) - 1))

ValueType(line) == line[FirstEquals(line) + 1]

ValueText(line) == SubSeq(line, FirstEquals(line) + 3, Len(line))

\* The words that are decimal numbers, with their values.
Numerals == [w \in {"0", "1", "65"} |-> IF w = "0" THEN 0 ELSE IF w = "1" THEN 1 ELSE 65]

\* parseInt10(n): the number the text starts with, NaN when there is none
parseInt10(tokens) ==
    IF tokens # <<>> /\ Head(tokens) \in DOMAIN Numerals THEN Num(Numerals[Head(tokens)])
    ELSE NaN

\* value.split(",").map(parseInt10) as 16-bit code units or as bytes: NaN
\* becomes 0
Units(tokens, modulus) ==
    LET pieces == Split(tokens, ",")
    IN  [ i \in 1..Len(pieces) |->
            IF parseInt10(pieces[i]).nan THEN 0 ELSE parseInt10(pieces[i]).n % modulus ]

\* The switch on the type of a value line: [known, parsed]
ParsedValue(type, value) ==
    IF type = "dw" THEN [known |-> TRUE, parsed |-> parseInt10(value)]
    ELSE IF type = "ws" THEN [known |-> TRUE, parsed |-> Str(Units(value, 65536))]
    ELSE IF type = "bn" THEN [known |-> TRUE, parsed |-> Bytes(Units(value, 256))]
    ELSE [known |-> FALSE, parsed |-> Absent]

\* for (const key of keys) { ... } of a header line, from keys[i] on:
\* [err, heap, parent]
RECURSIVE Walked(_, _, _, _)
Walked(heap, parent, keys, i) ==
    IF i > Len(keys) THEN [err |-> "none", heap |-> heap, parent |-> parent]
    ELSE IF Truthy(GetProperty(heap, parent, keys[i]))
              /\ ocsIsSection(GetProperty(heap, parent, keys[i]))
    THEN Walked(heap, GetProperty(heap, parent, keys[i]).id, keys, i + 1)
    ELSE IF SetProperty(Append(heap, NewObject), parent, keys[i],
                        Ref(Len(heap) + 1)).err # "none"
    THEN [err |-> "TypeError", heap |-> Append(heap, NewObject), parent |-> parent]
    ELSE Walked(SetProperty(Append(heap, NewObject), parent, keys[i],
                            Ref(Len(heap) + 1)).heap,
                Len(heap) + 1, keys, i + 1)

\* parent[last] = section = {}: [err, heap, section]
Declared(walked, section, last) ==
    IF walked.err # "none"
    THEN [err |-> walked.err, heap |-> walked.heap, section |-> section]
    ELSE [err |-> SetProperty(Append(walked.heap, NewObject), walked.parent, last,
                              Ref(Len(walked.heap) + 1)).err,
          heap |-> SetProperty(Append(walked.heap, NewObject), walked.parent, last,
                               Ref(Len(walked.heap) + 1)).heap,
          section |-> Len(walked.heap) + 1]

\* The branch of parseOcs for a header line: [err, heap, section]
HeaderLine(heap, section, keys) ==
    Declared(Walked(heap, Data, SubSeq(keys, 1, Len(keys) - 1), 1), section,
             keys[Len(keys)])

\* The value line that stores what a line of an unknown type holds as its
\* text.
ValueLine_anyType(heap, section, key, type, value) ==
    IF section = 0 THEN [err |-> "none", heap |-> heap, section |-> section]
    ELSE [err |-> "none",
          heap |-> SetProperty(heap, section, key,
                               IF ParsedValue(type, value).known
                               THEN ParsedValue(type, value).parsed
                               ELSE Str(Units(value, 65536))).heap,
          section |-> section]

\* The branch of parseOcs for a value line; section is 0 while `section` is
\* undefined.
ValueLine(heap, section, key, type, value) ==
    IF section = 0 THEN [err |-> "none", heap |-> heap, section |-> section]
    ELSE IF ~ParsedValue(type, value).known
    THEN [err |-> "none", heap |-> heap, section |-> section]
    ELSE [err |-> "none",
          heap |-> SetProperty(heap, section, key, ParsedValue(type, value).parsed).heap,
          section |-> section]

\* The body of the loop of parseOcs for one line: [err, heap, section]
parseOcs(heap, section, line) ==
    IF line = <<>> \/ Head(line) = "#"
    THEN [err |-> "none", heap |-> heap, section |-> section]
    ELSE IF IsHeader(line) THEN HeaderLine(heap, section, HeaderKeys(line))
    ELSE IF IsValueLine(line)
    THEN ValueLine(heap, section, ValueKey(line), ValueType(line), ValueText(line))
    ELSE [err |-> "none", heap |-> heap, section |-> section]

\* The keys obj[key] yields a value for, __proto__ apart.
RECURSIVE Readable(_, _)
Readable(heap, id) ==
    DOMAIN heap[id].own
        \cup (IF heap[id].proto = 0 THEN {} ELSE Readable(heap, heap[id].proto))

\* The section tree the functions of Ocs.parse read from the object heap[id],
\* depth levels down.
RECURSIVE TreeOf(_, _, _)
TreeOf(heap, id, depth) ==
    Section([ k \in Readable(heap, id) |->
                IF GetProperty(heap, id, k).t # "section" THEN GetProperty(heap, id, k)
                ELSE IF depth = 0 THEN EmptySection
                ELSE TreeOf(heap, GetProperty(heap, id, k).id, depth - 1) ])

\* super(message ?? ...) of OcsError: the message of `new OcsError()`
DefaultMessage == "Settings file"

\* What the functions of the first variant of Ocs.parse throw where those of
\* the second throw `new OcsError(message)`: the tests are the same, the
\* message is written with console.log and `new OcsError()` is thrown.
Logged(result) ==
    IF result.err = "OcsError" THEN [result EXCEPT !.message = DefaultMessage] ELSE result

\* Ocs.parse of the first variant, keys being Object.keys(root):
\* if (Object.keys(root).length === 0) throw new OcsError(); return parseRoot(root)
Ocs_parse_checked(keys, root) ==
    IF keys = {}
    THEN [err |-> "OcsError", message |-> DefaultMessage, launchers |-> <<>>]
    ELSE Logged(parseRoot(root))
(***************************************************************************)
(* Input buffers of the decoder: chains of records of the layouts idl.ts   *)
(* reads, well-formed and damaged.                                         *)
(***************************************************************************)
MaxRecords == 2

MaxCut == 2

\* The 16 bytes that decode to the CLSID c.
CLSID_bytes(c) ==
    <<c.d1lo % 256, c.d1lo \div 256, c.d1hi % 256, c.d1hi \div 256,
      c.data2 % 256, c.data2 \div 256, c.data3 % 256, c.data3 \div 256>> \o c.data4

\* {FFEEDDCC-BBAA-9988-7766-554433221100}: in no table of the source
CLSID_Unregistered ==
    [d1hi |-> 65518, d1lo |-> 56780, data2 |-> 48042, data3 |-> 39304,
     data4 |-> <<119, 102, 85, 68, 51, 34, 17, 0>>]

\* {7B0DB17D-9CD2-4A93-9733-46CC89022E7C}: the first row of UsersLibraries' table
CLSID_LibraryDocuments == UsersLibraries_REGISTRY[1][1]

\* A record of the GUID layout: length 20, tag, one unknown byte, the CLSID.
GuidRecord(tag, c) == <<20, 0, tag, 0>> \o CLSID_bytes(c)

\* A record of the extended GUID layout: length 30, tag, 11 unknown bytes,
\* the CLSID at offset 14.
ExtGuidRecord(tag, c) ==
    <<30, 0, tag>> \o <<0, 0, 0, 0, 0, 0, 0, 0, 0, 0, 0>> \o CLSID_bytes(c)

\* A drive record: length 23, tag 0x2F, "C:\" padded with NULs to 20 bytes.
DriveRecord ==
    <<23, 0, 47, 67, 58, 92, 0, 0, 0, 0, 0, 0, 0, 0, 0, 0, 0, 0, 0, 0, 0, 0, 0>>

\* A network share record: length 9, tag 0xC3, two unknown bytes, "\\S" NUL.
NetworkRecord == <<9, 0, 195, 1, 0, 92, 92, 83, 0>>

\* A file record: length 44, tag 0x32, a 12-byte header, the short name "A",
\* then at offset 16 a name block of length 28 whose bytes 16..17 hold the
\* name offset 20, the name "ab" in UTF-16 with its terminator, and in the
\* record's last two bytes the offset 16 of the name block.
FileRecord ==
    <<44, 0, 50, 0, 0, 0, 0, 0, 0, 0, 0, 0, 32, 0, 65, 0,
      28, 0, 8, 0, 4, 0, 239, 190, 0, 0, 0, 0, 0, 0, 0, 0, 20, 0, 0, 0,
      97, 0, 98, 0, 0, 0, 16, 0>>

\* A record of a tag no layout is selected by, with no name block.
UnknownRecord == <<4, 0, 255, 0>>

\* Records of length 1 and 2: the next record starts inside the header.
Cb1Record == <<1, 0, 0>>

Cb2Record == <<2, 0>>

\* The GUID record with the length field 0x12 where its 20 bytes ask for 0x14.
ShortLengthGuidRecord == <<18, 0, 31, 0>> \o CLSID_bytes(CLSID_MyComputer)

\* The zero-length record that ends a chain.
Terminator == <<0, 0>>

\* The GUID records that select a strategy, or only a name, at the root.
RootRecords ==
    { GuidRecord(31, c) : c \in {CLSID_ControlPanel, CLSID_MyComputer,
                                 CLSID_ShellDesktop, CLSID_NetworkExplorerFolder,
                                 Known_CLSID_UsersLibraries, Known_CLSID_UsersFiles,
                                 Known_CLSID_ControlPanel, CLSID_Unregistered} }

\* The records that follow a root.
BodyRecords ==
    { DriveRecord, NetworkRecord, FileRecord, UnknownRecord,
      ExtGuidRecord(0, CLSID_LibraryDocuments) }

Records ==
    RootRecords \cup BodyRecords \cup
    { GuidRecord(46, CLSID_Printers), ExtGuidRecord(113, CLSID_Unregistered),
      Cb1Record, Cb2Record, Terminator }

RECURSIVE Concat(_)
Concat(seqs) == IF seqs = <<>> THEN <<>> ELSE Head(seqs) \o Concat(Tail(seqs))

\* The sequences of at most n records of the set S
ChainsOf(S, n) == UNION { [1..k -> S] : k \in 0..n }

\* Every chain of at most MaxRecords records, and every root followed by at
\* most MaxRecords + 1 body records.
Chains ==
    ChainsOf(Records, MaxRecords) \cup
    { <<r>> \o b : r \in RootRecords, b \in ChainsOf(BodyRecords, MaxRecords + 1) }

\* The buffer with its last k bytes missing.
CutEnd(buf, k) == Subarray(buf, 0, Len(buf) - k)

\* A chain with its terminator, with one byte of it, with none, and with
\* its last record cut short; and the buffer of claim C10.
Buffers ==
    { Concat(ch) \o tail : ch \in Chains, tail \in {Terminator, <<0>>} } \cup
    { CutEnd(Concat(ch), k) : ch \in Chains, k \in 0..MaxCut } \cup
    { ShortLengthGuidRecord \o Terminator }

(***************************************************************************)
(* Input section trees of Ocs.parse: documents the parser accepts, and     *)
(* what edits of single keys make of them.  Strings are code units.        *)
(***************************************************************************)
MaxEdits == 1

MaxIndex == 3

RECURSIVE MakeSection(_)
\* The section holding the <<key, value>> pairs of a sequence.
MakeSection(pairs) ==
    IF pairs = <<>> THEN EmptySection
    ELSE SetKey(MakeSection(Tail(pairs)), Head(pairs)[1], Head(pairs)[2])

\* C:\ under My Computer, with the terminator
DriveItemID == GuidRecord(31, CLSID_MyComputer) \o DriveRecord \o Terminator

\* A buffer that is too short to hold a record
ShortItemID == <<1>>

LaunchItem ==
    MakeSection(<< <<"Type", Num(0)>>, <<"ItemID", Bytes(DriveItemID)>>,
                   <<"Caption", Str(<<76>>)>>, <<"Parameter", Str(<<112>>)>>,
                   <<"ShowCmd", Num(1)>> >>)

FolderItem ==
    MakeSection(<< <<"Type", Num(1)>>, <<"ItemID", Bytes(Terminator)>>,
                   <<"Caption", Str(<<70>>)>> >>)

SeparatorItem == MakeSection(<< <<"Type", Num(2)>> >>)

SubmenuItem ==
    MakeSection(<< <<"Type", Num(3)>>, <<"Caption", Str(<<83>>)>>, <<"Items", Num(2)>>,
                   <<"0", FolderItem>>, <<"1", SeparatorItem>> >>)

SpecialItem ==
    MakeSection(<< <<"Type", Num(4)>>, <<"ID", Num(144)>>, <<"Caption", Str(<<82>>)>> >>)

\* A type code the parser does not know, with a Caption that is no string.
UnknownItem == MakeSection(<< <<"Type", Num(9)>>, <<"Caption", Num(0)>> >>)

\* Two launchers: the six variants, a submenu one level down.
Document ==
    MakeSection(<< <<"Launchers", MakeSection(<<
        <<"LauncherCount", Num(2)>>,
        <<"1", MakeSection(<< <<"Title", Str(<<65>>)>>,
                 <<"Menu", MakeSection(<< <<"Items", Num(3)>>, <<"0", LaunchItem>>,
                                          <<"1", SubmenuItem>>, <<"2", SpecialItem>> >>)>> >>)>>,
        <<"2", MakeSection(<< <<"Title", Str(<<66>>)>>,
                 <<"Menu", MakeSection(<< <<"Items", Num(1)>>,
                                          <<"0", UnknownItem>> >>)>> >>)>> >>)>> >>)

\* No launcher at all.
EmptyDocument ==
    MakeSection(<< <<"Launchers", MakeSection(<< <<"LauncherCount", Num(0)>> >>)>> >>)

\* A section tree without the Launchers section.
ForeignDocument == MakeSection(<< <<"Settings", MakeSection(<< <<"Items", Num(1)>> >>)>> >>)

Documents == <<Document, EmptyDocument, ForeignDocument>>

\* The section a path of keys leads to.
RECURSIVE SectionAt(_, _)
SectionAt(section, path) ==
    IF path = <<>> THEN section ELSE SectionAt(Get(section, Head(path)), Tail(path))

\* The paths that lead to the sections of a tree, the tree itself included.
RECURSIVE SectionPaths(_)
SectionPaths(section) ==
    {<<>>} \cup
    UNION { { <<k>> \o p : p \in SectionPaths(section.kv[k]) } :
              k \in { j \in DOMAIN section.kv : section.kv[j].t = "section" } }

\* The tree with the key set (or removed) in the section the path leads to.
RECURSIVE EditAt(_, _, _, _)
EditAt(section, path, key, value) ==
    IF path = <<>> THEN SetKey(section, key, value)
    ELSE SetKey(section, Head(path),
                EditAt(Get(section, Head(path)), Tail(path), key, value))

IndexKeys == { ToString(i) : i \in 0..MaxIndex }

\* The <<key, value>> pairs an edit writes into a section below the root.
EditPairs ==
    ({"LauncherCount", "Items"} \X
        ({Absent, NaN, Str(<<51>>)} \cup { Num(n) : n \in (0 - 1)..(MaxIndex + 1) }))
    \cup ({"Type"} \X {Absent, NaN, Str(<<48>>), Num(0), Num(1), Num(2), Num(3), Num(4), Num(9)})
    \cup ({"Title", "Caption", "Parameter", "Verb"} \X {Absent, Str(<<79>>), Num(0)})
    \cup ({"ItemID"} \X {Absent, Bytes(ShortItemID), Str(<<79>>)})
    \cup ({"ShowCmd", "ID"} \X {Absent, Num(2), Str(<<50>>)})
    \cup ({"Menu"} \X {Absent, EmptySection, Str(<<79>>)})
    \cup (IndexKeys \X {Absent, EmptySection, Num(0)})

(***************************************************************************)
(* The files dropped on the application, as the section trees parseOcs     *)
(* makes of them.                                                          *)
(***************************************************************************)
MaxEvents == 4

\* A record whose length field runs over the end of the buffer
OverlongItemID == <<2, 0, 4, 0>>

\* Items whose identifier lists do not decode, next to one that does.
PathsDocument ==
    MakeSection(<< <<"Launchers", MakeSection(<<
        <<"LauncherCount", Num(1)>>,
        <<"1", MakeSection(<< <<"Title", Str(<<80>>)>>,
                 <<"Menu", MakeSection(<<
                     <<"Items", Num(3)>>,
                     <<"0", SetKey(LaunchItem, "ItemID", Bytes(ShortItemID))>>,
                     <<"1", SetKey(FolderItem, "ItemID", Bytes(OverlongItemID))>>,
                     <<"2", SetKey(FolderItem, "ItemID", Bytes(DriveItemID))>> >>)>> >>)>> >>)>> >>)

\* The second launcher declares an item it does not hold.
TruncatedDocument ==
    EditAt(Document, <<"Launchers", "2", "Menu">>, "Items", Num(2))

AppDocuments ==
    <<Document, PathsDocument, EmptyDocument, ForeignDocument, TruncatedDocument>>

(***************************************************************************)
(* Input buffers of the methods of ItemIDList: one record of the file      *)
(* layout with its fields varied, the records of the other layouts, and    *)
(* what lies behind the record in the buffer.                              *)
(***************************************************************************)
MaxChain == 3

\* buf with the bytes written at the 0-based position pos; what falls behind
\* the end of buf is dropped.
Put(buf, pos, bytes) ==
    [ i \in 1..Len(buf) |->
        IF i - 1 >= pos /\ i - 1 < pos + Len(bytes) THEN bytes[i - pos] ELSE buf[i] ]

\* The two bytes of a 16-bit number, low byte first.
U16(n) == <<n % 256, n \div 256>>

Zeros(n) == [ i \in 1..n |-> 0 ]

\* The length of the records NameRecord builds.
NameRecordLength == Len(FileRecord)

\* A record of 44 bytes with the tag, a name block at blk (its length header
\* cbLen, at its bytes 16..17 the name offset 18, then the name "a" and its
\* terminator), the number extra in the two bytes behind the header's
\* length, and off in the record's last two bytes.
NameRecord(tag, blk, off, cbLen, extra) ==
    Put(Put(Put(Put(Put(Put(Zeros(NameRecordLength), 0, <<NameRecordLength, 0, tag>>),
                            blk + 16, U16(18)),
                        blk + 18, <<97, 0>>),
                    blk, U16(cbLen)),
                blk + cbLen, IF blk + cbLen + 2 <= NameRecordLength - 2
                             THEN U16(extra) ELSE <<>>),
        NameRecordLength - 2, U16(off))

NameRecordTags == {50, 49, 47, 31, 113, 255}

NameRecords ==
    { NameRecord(tag, blk, off, NameRecordLength - blk - short, extra) :
        tag \in NameRecordTags, blk \in {16, 20},
        off \in {0, 14, 16, 17, 20, 22, 44}, short \in {0, 4, 0 - 2},
        extra \in {0, 4} }

\* File records whose name block holds another name offset: at the end of
\* the block, two and three bytes before it, behind it.
NameOffsetRecords ==
    { Put(NameRecord(50, blk, blk, NameRecordLength - blk, 0), blk + 16, U16(n)) :
        blk \in {16, 20}, n \in {18, 20, 21, 22, 23, 24, 25, 26, 27, 28, 30} }

\* Records cut off by the end of the buffer: a length field alone, and a
\* GUID record of six bytes.
LengthOnlyRecord == <<5, 0>>

CutGuidRecord == <<20, 0, 31, 0, 224, 79>>

\* A drive record of five bytes: the 20 bytes of the name's layout reach
\* behind its end.
ShortDriveRecord == <<5, 0, 47, 67, 58>>

\* A drive record whose name is empty.
EmptyDriveRecord == Put(DriveRecord, 3, <<0, 0, 0>>)

OtherRecords ==
    { DriveRecord, EmptyDriveRecord, FileRecord, UnknownRecord, NetworkRecord,
      GuidRecord(31, CLSID_MyComputer), GuidRecord(46, CLSID_Unregistered),
      ExtGuidRecord(113, CLSID_Unregistered), ExtGuidRecord(113, CLSID_RecycleBin),
      ShortDriveRecord, ShortLengthGuidRecord }

\* What lies behind a record: the terminator, nothing, another record.
Tails == { Terminator, <<>>, DriveRecord \o Terminator }

\* The records a chain handed to a strategy is made of.
ChainRecords == { DriveRecord, EmptyDriveRecord, FileRecord, UnknownRecord }

RecordBuffers ==
    { r \o tail : r \in NameRecords \cup NameOffsetRecords \cup OtherRecords,
                 tail \in Tails } \cup
    { Concat(ch) \o Terminator : ch \in ChainsOf(ChainRecords, MaxChain) } \cup
    { LengthOnlyRecord, CutGuidRecord, CutEnd(FileRecord, 3) }
(***************************************************************************)
(* Inputs of the CLSID class: texts one character away from a text of the  *)
(* pattern, and byte arrays one byte away from 16 given bytes, shorter and *)
(* longer ones.                                                            *)
(***************************************************************************)
\* {46e06680-4bf0-11d1-83ee-00a0c90dc849}, as clsid.ts writes it
LowerText ==
    <<123, 52, 54, 101, 48, 54, 54, 56, 48, 45, 52, 98, 102, 48, 45, 49, 49,
      100, 49, 45, 56, 51, 101, 101, 45, 48, 48, 97, 48, 99, 57, 48, 100, 99,
      56, 52, 57, 125>>

\* {0000000A-00B0-0C00-D000-0000000E00F0}
ZerosText ==
    <<123, 48, 48, 48, 48, 48, 48, 48, 65, 45, 48, 48, 66, 48, 45, 48, 67,
      48, 48, 45, 68, 48, 48, 48, 45, 48, 48, 48, 48, 48, 48, 48, 69, 48, 48,
      70, 48, 125>>

\* {FfFfFfFf-8000-fFfF-80Ff-fF80fF80fF80}
MixedText ==
    <<123, 70, 102, 70, 102, 70, 102, 70, 102, 45, 56, 48, 48, 48, 45, 102,
      70, 102, 70, 45, 56, 48, 70, 102, 45, 102, 70, 56, 48, 102, 70, 56, 48,
      102, 70, 56, 48, 125>>

\* The characters put in place of one of a text: 0, 9, a, f, F, g, G, -, {,
\* }, a blank
TextUnits == {48, 57, 97, 102, 70, 103, 71, 45, 123, 125, 32}

ClsidTexts ==
    { Put(t, i, <<c>>) : t \in {LowerText, ZerosText, MixedText}, i \in 0..37,
                         c \in TextUnits } \cup
    { t \o <<c>> : t \in {LowerText, ZerosText}, c \in {125, 48, 10} } \cup
    { <<c>> \o t : t \in {LowerText, ZerosText}, c \in {123, 48, 32} } \cup
    { Slice(t, 0, n) : t \in {LowerText}, n \in {0, 1, 37} } \cup
    { Slice(t, 1, 37) : t \in {LowerText, ZerosText} }

\* The bytes of {20D04FE0-3AEA-1069-A2D8-08002B30309D}, and 16 bytes with
\* the top bit set in each
ByteUnits == {0, 1, 127, 128, 255}

ClsidArrays ==
    { Put(b, i, <<v>>) : b \in {CLSID_bytes(CLSID_MyComputer), Zeros(16),
                                 [ k \in 1..16 |-> 255 ]},
                         i \in 0..15, v \in ByteUnits } \cup
    { Zeros(n) : n \in {0, 1, 8, 15, 17, 32} } \cup
    { CLSID_bytes(CLSID_MyComputer) \o <<0>>,
      Slice(CLSID_bytes(CLSID_MyComputer), 0, 15),
      Slice(CLSID_bytes(CLSID_MyComputer), 1, 16) }

ClsidSources ==
    { [kind |-> "string", s |-> t] : t \in ClsidTexts } \cup
    { [kind |-> "bytes", s |-> b] : b \in ClsidArrays }

(***************************************************************************)
(* The lines parseOcs is given.                                            *)
(***************************************************************************)
\* The number of lines of a text.
MaxLines == 3

\* The levels of the tree Ocs.parse reads with the keys of these lines.
TreeDepth == 3

\* [path\to\section]
HeaderLines ==
    { <<"[", "Launchers", "]">>,
      <<"[", "Launchers", "\\", "1", "]">>,
      <<"[", "Launchers", "\\", "1", "\\", "1", "]">>,
      <<"[", "__proto__", "]">>,
      <<"[", "__proto__", "\\", "Launchers", "]">>,
      <<"[", "__proto__", "\\", "1", "]">>,
      <<"[", "__proto__", "\\", "__proto__", "]">> }

\* Key=Type:Value, the type being known
ValueLines ==
    { <<"LauncherCount", "=", "dw", ":", "0">>,
      <<"LauncherCount", "=", "dw", ":", "1">>,
      <<"LauncherCount", "=", "dw", ":">>,
      <<"LauncherCount", "=", "ws", ":", "65">>,
      <<"1", "=", "bn", ":", "1", ",", "65">> }

\* Key=Type:Value, the type being none of dw, ws, bn
UnknownTypeLines ==
    { <<"LauncherCount", "=", "xx", ":", "0">>, <<"1", "=", "xx", ":", "1">> }

\* Empty lines and comments.
IgnoredLines == { <<>>, <<"#", "Launchers">> }

\* Lines that match neither pattern: a bare word, empty brackets, text
\* behind the bracket, no key, a type of more than two letters.
OtherLines ==
    { <<"Launchers">>,
      <<"[", "]">>,
      <<"[", "Launchers", "]", "1">>,
      <<"=", "dw", ":", "1">>,
      <<"1", "=", "Launchers", ":", "1">> }
(***************************************************************************)
(* The state.                                                              *)
(***************************************************************************)
VARIABLES
    itemID,      \* the buffer handed to getPathFromItemID
    idlPc,       \* "input" before the call, "done" after it
    idlResult,   \* what the call yielded: [err, path]
    root,        \* the section tree handed to Ocs.parse
    edits,       \* the number of edits made to the tree
    parsePc,     \* "input" before the call, "done" after it
    parseResult, \* what the call yielded: [err, message, launchers]
    heap,        \* the objects of parseOcs: Object.prototype, data, the sections
    ocsSection,  \* the `section` of parseOcs: the object's place in heap, 0 for
                 \* undefined
    linesRead,   \* the number of lines parseOcs has been through
    lastLine,    \* history: the line it went through last
    ocsPc,       \* "lines" in the loop, "thrown" or "returned" after it
    ocsErr,      \* the error that left parseOcs
    textResult,  \* what Ocs.parse yielded for the text: [err, message, launchers]
    textChecked, \* what the variant with the check of the empty tree yielded
    appOcs,          \* App.#ocs: [defined, launchers]
    appItems,        \* App.#items: the item objects, each with its id
    debug,           \* App.debug
    eLauncherSelect, \* the select element: [options, selectedIndex]
    eLauncher,       \* the menu element: [first (the data-index of its first
                     \* item), selected, locked]
    eInfo,           \* the info panel
    loaded,          \* document.body has the class "loaded"
    displayNames,    \* #displayName of the Launch and Folder items, by id
    decodes,         \* history: the calls of getPathFromItemID, by id
    lastEvent,       \* history: the listener that ran last
    events,          \* history: the number of events handled
    fileDialogOpen,  \* the file dialog has the attribute open
    closeTimer,      \* the closeTimer of the constructor: 0 for undefined
    timers,          \* the ids of the timeouts that are pending
    timerSeq,        \* the id setTimeout returned last
    record,      \* the buffer an ItemIDList is constructed on
    recOp,       \* the method or strategy that was called on it, "input" before
    recResult,   \* what the call yielded: [err, some, text]
    clsidSrc,    \* the argument of new CLSID: [kind, s], a string or bytes
    clsidPc,     \* "input", "made", "shown", "reparsed"
    clsidObj,    \* what new CLSID yielded: [err, d1hi, d1lo, data2, data3, data4]
    clsidStr,    \* what toString() of the object yielded
    clsidAgain   \* what new CLSID yielded for that string

idlVars == <<itemID, idlPc, idlResult>>

ocsVars == <<heap, ocsSection, linesRead, lastLine, ocsPc, ocsErr, textResult, textChecked>>

parseVars == <<root, edits, parsePc, parseResult, ocsVars>>

appVars == <<appOcs, appItems, debug, eLauncherSelect, eLauncher, eInfo, loaded,
             displayNames, decodes, lastEvent, events,
             fileDialogOpen, closeTimer, timers, timerSeq>>

dragVars == <<fileDialogOpen, closeTimer, timers, timerSeq>>

recVars == <<record, recOp, recResult>>

clsidVars == <<clsidSrc, clsidPc, clsidObj, clsidStr, clsidAgain>>

unitVars == <<record, recOp, recResult, clsidSrc, clsidPc, clsidObj, clsidStr, clsidAgain>>

vars == <<itemID, idlPc, idlResult, root, edits, parsePc, parseResult,
          heap, ocsSection, linesRead, lastLine, ocsPc, ocsErr, textResult, textChecked,
          appOcs, appItems, debug, eLauncherSelect, eLauncher, eInfo, loaded,
          displayNames, decodes, lastEvent, events,
          fileDialogOpen, closeTimer, timers, timerSeq,
          record, recOp, recResult, clsidSrc, clsidPc, clsidObj, clsidStr, clsidAgain>>

NoResult == [err |-> "pending", path |-> <<>>]

NoParse == [err |-> "pending", message |-> "", launchers |-> <<>>]

NoText == [err |-> "pending", some |-> FALSE, text |-> <<>>]

NoCLSID == [err |-> "pending", d1hi |-> 0, d1lo |-> 0, data2 |-> 0, data3 |-> 0,
            data4 |-> <<>>]

\* No ItemIDList method is under test.
RecIdle == record = <<>> /\ recOp = "idle" /\ recResult = NoText

\* No CLSID is under construction.
ClsidIdle ==
    /\ clsidSrc = [kind |-> "none", s |-> <<>>]
    /\ clsidPc = "idle"
    /\ clsidObj = NoCLSID
    /\ clsidStr = <<>>
    /\ clsidAgain = NoCLSID

\* The decoder at rest, while another part runs.
IdlIdle == itemID = <<>> /\ idlPc = "idle" /\ idlResult = NoResult

\* parseOcs at rest.
OcsIdle ==
    /\ heap = <<>>
    /\ ocsSection = 0
    /\ linesRead = 0
    /\ lastLine = <<>>
    /\ ocsPc = "idle"
    /\ ocsErr = "none"
    /\ textResult = NoParse
    /\ textChecked = NoParse

\* The parser at rest.
ParseIdle ==
    /\ root = EmptySection /\ edits = 0 /\ parsePc = "idle" /\ parseResult = NoParse
    /\ OcsIdle

\* The application after its constructor.
AppStart ==
    /\ appOcs = [defined |-> FALSE, launchers |-> <<>>]
    /\ appItems = <<>>
    /\ debug = FALSE
    /\ eLauncherSelect = [options |-> <<>>, selectedIndex |-> 0 - 1]
    /\ eLauncher = [first |-> 0, selected |-> 0 - 1, locked |-> FALSE]
    /\ eInfo = [shown |-> FALSE]
    /\ loaded = FALSE
    /\ displayNames = <<>>
    /\ decodes = <<>>
    /\ lastEvent = [name |-> "none", arg |-> 0, escaped |-> "none", alert |-> ""]
    /\ events = 0
    /\ fileDialogOpen = TRUE
    /\ closeTimer = 0
    /\ timers = {}
    /\ timerSeq = 0

IdlInit ==
    /\ itemID \in Buffers
    /\ idlPc = "input"
    /\ idlResult = NoResult
    /\ ParseIdle
    /\ AppStart
    /\ RecIdle
    /\ ClsidIdle

\* One call of getPathFromItemID on the buffer.
Decode ==
    /\ idlPc = "input"
    /\ idlResult' = getPathFromItemID(itemID)
    /\ idlPc' = "done"
    /\ UNCHANGED <<itemID, parseVars, appVars, unitVars>>

IdlNext == Decode

SpecIdl == IdlInit /\ [][IdlNext]_vars

ParseInit ==
    /\ \E d \in 1..Len(Documents) : root = Documents[d]
    /\ edits = 0
    /\ parsePc = "input"
    /\ parseResult = NoParse
    /\ OcsIdle
    /\ IdlIdle
    /\ AppStart
    /\ RecIdle
    /\ ClsidIdle

\* The file is edited: one key of one section below the root is written or
\* removed.
Edit ==
    /\ parsePc = "input"
    /\ edits < MaxEdits
    /\ \E path \in SectionPaths(root) \ {<<>>}, kv \in EditPairs :
          root' = EditAt(root, path, kv[1], kv[2])
    /\ edits' = edits + 1
    /\ UNCHANGED <<parsePc, parseResult, ocsVars, idlVars, appVars, unitVars>>

\* One call of Ocs.parse on the tree.
Parse ==
    /\ parsePc = "input"
    /\ parseResult' = Ocs_parse(root)
    /\ parsePc' = "done"
    /\ UNCHANGED <<root, edits, ocsVars, idlVars, appVars, unitVars>>

ParseNext == Edit \/ Parse

SpecParse == ParseInit /\ [][ParseNext]_vars

\* The application object and the elements it holds.
This ==
    [ocs |-> appOcs, items |-> appItems, debug |-> debug,
     eLauncherSelect |-> eLauncherSelect, eLauncher |-> eLauncher, eInfo |-> eInfo,
     loaded |-> loaded, displayNames |-> displayNames]

Becomes(that) ==
    /\ appOcs' = that.ocs
    /\ appItems' = that.items
    /\ debug' = that.debug
    /\ eLauncherSelect' = that.eLauncherSelect
    /\ eLauncher' = that.eLauncher
    /\ eInfo' = that.eInfo
    /\ loaded' = that.loaded
    /\ displayNames' = that.displayNames

Handled(name, arg, escaped, alert) ==
    /\ lastEvent' = [name |-> name, arg |-> arg, escaped |-> escaped, alert |-> alert]
    /\ events' = events + 1
    /\ UNCHANGED <<idlVars, parseVars, unitVars>>

\* The decoder ran for the ids of a sequence.
Decoded(ids) ==
    decodes' = [ id \in DOMAIN decodes |->
                   decodes[id] + (IF \E k \in 1..Len(ids) : ids[k] = id THEN 1 ELSE 0) ]

\* A listener of the menu has run.
Pointed(name, target, done) ==
    /\ Becomes(done.this)
    /\ Decoded(done.decoded)
    /\ Handled(name, target, done.escaped, "")
    /\ UNCHANGED dragVars

\* processText has run: new item objects exist when it got past the catch.
Opened(d, done) ==
    /\ Becomes(done.this)
    /\ decodes' = IF done.alert # "" \/ done.escaped # "none" THEN decodes
                  ELSE [ id \in DOMAIN done.this.displayNames |-> 0 ]
    /\ fileDialogOpen' = IF done.escaped = "none" /\ done.this.ocs.defined THEN FALSE
                         ELSE fileDialogOpen
    /\ UNCHANGED <<closeTimer, timers, timerSeq>>
    /\ Handled("processText", d, done.escaped, done.alert)

AppInit == IdlIdle /\ ParseIdle /\ AppStart /\ RecIdle /\ ClsidIdle

\* A file is dropped or chosen: processText runs on its text.
ProcessText ==
    /\ events < MaxEvents
    /\ \E d \in 1..Len(AppDocuments) : Opened(d, processText(This, AppDocuments[d]))

\* Another launcher is chosen in the select element.
LauncherInput ==
    /\ events < MaxEvents
    /\ \E i \in 0..(Len(eLauncherSelect.options) - 1) :
          /\ Becomes(onLauncherInput(This, i))
          /\ UNCHANGED decodes
          /\ Handled("input", i, "none", "")
          /\ UNCHANGED dragVars

\* The elements a pointer event of the menu can come from: an item that is
\* shown, or none.
Targets == {0 - 1} \cup eLauncher.first..(Len(appItems) - 1)

\* The pointer moves over the menu.
Mouseover ==
    /\ events < MaxEvents
    /\ \E target \in Targets : Pointed("mouseover", target, onMouseover(This, target))

\* The menu is clicked.
Click ==
    /\ events < MaxEvents
    /\ \E target \in Targets : Pointed("click", target, onClick(This, target))

\* app.debug is switched from the console.
SetDebug ==
    /\ events < MaxEvents
    /\ Becomes([This EXCEPT !.debug = ~debug])
    /\ UNCHANGED decodes
    /\ Handled("debug", 0, "none", "")
    /\ UNCHANGED dragVars

\* Something is dragged over the page: files (1) or something else (0).
Dragover ==
    /\ events < MaxEvents
    /\ \E files \in {0, 1} :
          /\ fileDialogOpen' = IF files = 1 THEN TRUE ELSE fileDialogOpen
          /\ timers' = IF files = 1 /\ closeTimer # 0 THEN timers \ {closeTimer}
                        ELSE timers
          /\ closeTimer' = IF files = 1 THEN 0 ELSE closeTimer
          /\ Handled("dragover", files, "none", "")
    /\ UNCHANGED timerSeq
    /\ Becomes(This)
    /\ UNCHANGED decodes

\* The drag leaves the page. clearTimeout is called only when closeTimer is
\* undefined, where it does nothing; the timeout closeTimer names stays
\* pending.
Dragleave ==
    /\ events < MaxEvents
    /\ IF appOcs.defined
       THEN /\ timerSeq' = timerSeq + 1
            /\ timers' = timers \cup {timerSeq + 1}
            /\ closeTimer' = timerSeq + 1
       ELSE UNCHANGED <<timerSeq, timers, closeTimer>>
    /\ UNCHANGED fileDialogOpen
    /\ Handled("dragleave", 0, "none", "")
    /\ Becomes(This)
    /\ UNCHANGED decodes

\* A pending timeout of dragleave expires: its callback closes the dialog.
CloseTimerExpires ==
    /\ \E t \in timers : timers' = timers \ {t}
    /\ fileDialogOpen' = FALSE
    /\ UNCHANGED <<closeTimer, timerSeq, lastEvent, events, decodes>>
    /\ UNCHANGED <<idlVars, parseVars, unitVars>>
    /\ Becomes(This)

AppNext ==
    \/ ProcessText \/ LauncherInput \/ Mouseover \/ Click \/ SetDebug
    \/ Dragover \/ Dragleave \/ CloseTimerExpires

SpecApp == AppInit /\ [][AppNext]_vars


(***************************************************************************)
(* The methods of ItemIDList and the strategies, called on a buffer.       *)
(***************************************************************************)
RecInit ==
    /\ record \in RecordBuffers
    /\ recOp = "input"
    /\ recResult = NoText
    /\ IdlIdle
    /\ ParseIdle
    /\ AppStart
    /\ ClsidIdle

\* The outcome of a call on the list constructed on the buffer, or the
\* error of the constructor.
OnList(idl, out) ==
    IF idl.err # "none" THEN [err |-> idl.err, some |-> FALSE, text |-> <<>>] ELSE out

\* A call op has run on new ItemIDList(record).
Called(op, out) ==
    /\ recOp = "input"
    /\ recOp' = op
    /\ recResult' = OnList(NewItemIDList(record, 0), out)
    /\ UNCHANGED <<record, idlVars, parseVars, appVars, clsidVars>>

\* What a strategy left in a new Path.
PathOf(built) == [err |-> built.err, some |-> built.err = "none", text |-> built.path]

\* idl.getText()
GetText ==
    Called("getText",
           [err |-> getText(NewItemIDList(record, 0)).err,
            some |-> getText(NewItemIDList(record, 0)).err = "none",
            text |-> getText(NewItemIDList(record, 0)).text])

\* idl.FileStructW_name()
FileStructWName ==
    Called("FileStructW_name",
           [err |-> "none",
            some |-> FileStructW_name(NewItemIDList(record, 0)).some,
            text |-> FileStructW_name(NewItemIDList(record, 0)).name])

\* FS.buildPath(new Path(), idl)
FSBuildPath == Called("FS", PathOf(FS_buildPath(<<>>, NewItemIDList(record, 0))))

\* MyComputer.buildPath(new Path(), idl)
MyComputerBuildPath ==
    Called("MyComputer", PathOf(MyComputer_buildPath(<<>>, NewItemIDList(record, 0))))

RecNext == GetText \/ FileStructWName \/ FSBuildPath \/ MyComputerBuildPath

SpecRecord == RecInit /\ [][RecNext]_vars

(***************************************************************************)
(* The CLSID class: construction from a text or from bytes, toString(),    *)
(* and construction from the text toString() yielded.                      *)
(***************************************************************************)
ClsidInit ==
    /\ clsidSrc \in ClsidSources
    /\ clsidPc = "input"
    /\ clsidObj = NoCLSID
    /\ clsidStr = <<>>
    /\ clsidAgain = NoCLSID
    /\ IdlIdle
    /\ ParseIdle
    /\ AppStart
    /\ RecIdle

\* A call that makes a CLSID from the source has run.
Constructed(via, made) ==
    /\ clsidPc = "input"
    /\ clsidPc' = via
    /\ clsidObj' = made
    /\ UNCHANGED <<clsidSrc, clsidStr, clsidAgain, idlVars, parseVars, appVars, recVars>>

\* new CLSID(src)
NewCLSID ==
    Constructed("new", IF clsidSrc.kind = "string" THEN CLSIDFromString(clsidSrc.s)
                       ELSE CLSIDFromBytes(clsidSrc.s))

\* CLSID.parse(s)
ParseCLSID == clsidSrc.kind = "string" /\ Constructed("parse", CLSID_parse(clsidSrc.s))

\* CLSID.fromString(s)
FromString ==
    clsidSrc.kind = "string" /\ Constructed("fromString", CLSID_fromString(clsidSrc.s))

\* CLSID.fromArray(arr)
FromArray ==
    clsidSrc.kind = "bytes" /\ Constructed("fromArray", CLSID_fromArray(clsidSrc.s))

\* clsid.toString() of the object that was made
ClsidToString ==
    /\ clsidPc \in {"new", "parse", "fromString", "fromArray"}
    /\ clsidObj.err = "none"
    /\ clsidStr' = CLSID_toString(CLSIDValue(clsidObj))
    /\ clsidPc' = "shown"
    /\ UNCHANGED <<clsidSrc, clsidObj, clsidAgain, idlVars, parseVars, appVars, recVars>>

\* CLSID.parse(t) of the text toString() yielded
Reparse ==
    /\ clsidPc = "shown"
    /\ clsidAgain' = CLSID_parse(clsidStr)
    /\ clsidPc' = "reparsed"
    /\ UNCHANGED <<clsidSrc, clsidObj, clsidStr, idlVars, parseVars, appVars, recVars>>

ClsidNext == NewCLSID \/ ParseCLSID \/ FromString \/ FromArray \/ ClsidToString \/ Reparse

SpecClsid == ClsidInit /\ [][ClsidNext]_vars

(***************************************************************************)
(* parseOcs on a text, line by line, then Ocs.parse in its two variants on *)
(* the object it returns.                                                  *)
(***************************************************************************)
OcsInit ==
    /\ heap = InitialHeap
    /\ ocsSection = 0
    /\ linesRead = 0
    /\ lastLine = <<>>
    /\ ocsPc = "lines"
    /\ ocsErr = "none"
    /\ textResult = NoParse
    /\ textChecked = NoParse
    /\ root = EmptySection /\ edits = 0 /\ parsePc = "idle" /\ parseResult = NoParse
    /\ IdlIdle
    /\ AppStart
    /\ RecIdle
    /\ ClsidIdle

\* The loop of parseOcs has gone through a line.
Read(line, done) ==
    /\ heap' = done.heap
    /\ ocsSection' = done.section
    /\ ocsErr' = done.err
    /\ ocsPc' = IF done.err = "none" THEN "lines" ELSE "thrown"
    /\ linesRead' = linesRead + 1
    /\ lastLine' = line
    /\ UNCHANGED <<textResult, textChecked, root, edits, parsePc, parseResult>>
    /\ UNCHANGED <<idlVars, appVars, unitVars>>

\* The next line is a section header.
ReadHeader ==
    /\ ocsPc = "lines"
    /\ linesRead < MaxLines
    /\ \E line \in HeaderLines : Read(line, parseOcs(heap, ocsSection, line))

\* The next line is a value of a known type.
ReadValue ==
    /\ ocsPc = "lines"
    /\ linesRead < MaxLines
    /\ \E line \in ValueLines : Read(line, parseOcs(heap, ocsSection, line))

\* The next line is a value of an unknown type.
ReadUnknownType ==
    /\ ocsPc = "lines"
    /\ linesRead < MaxLines
    /\ \E line \in UnknownTypeLines : Read(line, parseOcs(heap, ocsSection, line))

\* The next line is empty or a comment.
ReadIgnored ==
    /\ ocsPc = "lines"
    /\ linesRead < MaxLines
    /\ \E line \in IgnoredLines : Read(line, parseOcs(heap, ocsSection, line))

\* The next line matches neither pattern.
ReadOther ==
    /\ ocsPc = "lines"
    /\ linesRead < MaxLines
    /\ \E line \in OtherLines : Read(line, parseOcs(heap, ocsSection, line))

\* The text ends: parseOcs returns data, and Ocs.parse goes on with it, in
\* the variant without the check and in the one with it.
EndOfText ==
    /\ ocsPc = "lines"
    /\ ocsPc' = "returned"
    /\ textResult' = Ocs_parse(TreeOf(heap, Data, TreeDepth))
    /\ textChecked' = Ocs_parse_checked(DOMAIN heap[Data].own, TreeOf(heap, Data, TreeDepth))
    /\ UNCHANGED <<heap, ocsSection, linesRead, lastLine, ocsErr>>
    /\ UNCHANGED <<root, edits, parsePc, parseResult, idlVars, appVars, unitVars>>

OcsNext ==
    \/ ReadHeader \/ ReadValue \/ ReadUnknownType \/ ReadIgnored \/ ReadOther
    \/ EndOfText

SpecOcs == OcsInit /\ [][OcsNext]_vars
(***************************************************************************)
(* Claims about the decoder, checked under SpecIdl.                        *)
(***************************************************************************)
\* The code units of the registered display names the claims name.
DesktopName == <<12487, 12473, 12463, 12488, 12483, 12503>>

MyComputerName ==
    <<80, 67, 65288, 12510, 12452, 12467, 12531, 12500, 12517, 12540, 12479, 65289>>

StartsWithTerminator(buf) == Len(buf) >= 2 /\ buf[1] = 0 /\ buf[2] = 0

\* C8: a buffer of at least 2 bytes that starts 00 00, whatever follows, is
\* the empty chain (isDesktop() holds, getNext() yields no successor) and
\* getPathFromItemID returns the Desktop's display name and nothing else.
C8_ZeroLengthIsDesktop ==
    StartsWithTerminator(itemID) =>
        LET idl == NewItemIDList(itemID, 0)
        IN  /\ idl.err = "none"
            /\ isDesktop(idl)
            /\ ~getNext(idl).some
            /\ idlPc = "done" => idlResult = [err |-> "none", path |-> DesktopName]

\* A decoded buffer that starts 00 00 and goes on with a record.
C8_Witness ==
    /\ idlPc = "done"
    /\ StartsWithTerminator(itemID)
    /\ Len(itemID) > 4
    /\ itemID[3] # 0

\* The walk of the chain from offset o meets a record with a nonzero length
\* field that ends behind the end of the buffer.
RECURSIVE OverlongFrom(_, _)
OverlongFrom(buf, o) ==
    /\ Len(buf) - o >= 2
    /\ LET cb == U16At(buf, o)
       IN  /\ cb # 0
           /\ \/ o + cb > Len(buf)
              \/ OverlongFrom(buf, o + cb)

\* C9 as claimed: whenever the walk meets a record that extends past the end
\* of the buffer, getPathFromItemID fails with IdlError.
C9_OverlongIsIdlError ==
    (idlPc = "done" /\ OverlongFrom(itemID, 0)) => idlResult.err = "IdlError"

\* C10 as claimed: 12 00 1F 00, the My Computer CLSID, 00 00 decodes to the
\* single segment that is My Computer's display name.
C10_AsClaimed ==
    (idlPc = "done" /\ itemID = ShortLengthGuidRecord \o Terminator)
        => idlResult = [err |-> "none", path |-> MyComputerName]

\* C10 amended: 14 00 1F 00, the My Computer CLSID, 00 00 (a record of 20
\* bytes with the length field 0x14, then the terminator) decodes to the
\* single segment that is My Computer's display name.
C10_MyComputerRecord ==
    (idlPc = "done" /\ itemID = GuidRecord(31, CLSID_MyComputer) \o Terminator)
        => /\ idlResult = [err |-> "none", path |-> MyComputerName]
           /\ \A i \in 1..Len(idlResult.path) : idlResult.path[i] # 92

\* C10 witness: the 20-byte My Computer record and the terminator were
\* decoded.
C10_Witness ==
    /\ idlPc = "done"
    /\ itemID = <<20, 0, 31, 0, 224, 79, 208, 32, 234, 58, 105, 16,
                  162, 216, 8, 0, 43, 48, 48, 157, 0, 0>>

(***************************************************************************)
(* What Ocs.parse is to interpret of a section tree: the launchers inside  *)
(* LauncherCount, their menus, the items inside each declared Items count, *)
(* through submenus of any depth.  Paths are sequences of keys.            *)
(***************************************************************************)
\* The value under a key is of the given kind.
Holds(section, key, kind) == Get(section, key).t = kind

\* The Type of an item when it is a number other than NaN, else -1.
TypeCode(item) ==
    LET type == Get(item, "Type")
    IN  IF type.t = "number" THEN (IF type.nan THEN 0 - 1 ELSE type.n) ELSE 0 - 1

\* The indices lo, lo + 1, ... a declared count covers.
Range(lo, count) ==
    IF count.t = "number" THEN (IF count.nan THEN {} ELSE lo..(count.n - 1 + lo)) ELSE {}

LauncherPaths(tree) ==
    LET launchers == Get(tree, "Launchers")
    IN  IF launchers.t # "section" THEN {}
        ELSE { <<"Launchers", ToString(i)>> :
                 i \in { j \in Range(1, Get(launchers, "LauncherCount")) :
                           Holds(launchers, ToString(j), "section") } }

MenuPaths(tree) ==
    { p \o <<"Menu">> :
        p \in { q \in LauncherPaths(tree) : Holds(SectionAt(tree, q), "Menu", "section") } }

IsSubmenu(item) == TypeCode(item) = 3

RECURSIVE ItemPathsUnder(_, _)
ItemPathsUnder(tree, container) ==
    LET c == SectionAt(tree, container)
        direct == { container \o <<ToString(i)>> :
                      i \in { j \in Range(0, Get(c, "Items")) :
                                Holds(c, ToString(j), "section") } }
    IN  direct \cup
        UNION { ItemPathsUnder(tree, p) :
                  p \in { q \in direct : IsSubmenu(SectionAt(tree, q)) } }

ItemPaths(tree) == UNION { ItemPathsUnder(tree, m) : m \in MenuPaths(tree) }

SubmenuPaths(tree) == { p \in ItemPaths(tree) : IsSubmenu(SectionAt(tree, p)) }

\* The launcher list, every Menu and every Submenu.
ContainerPaths(tree) ==
    (IF Holds(tree, "Launchers", "section") THEN {<<"Launchers">>} ELSE {})
    \cup MenuPaths(tree) \cup SubmenuPaths(tree)

IsLauncherList(container) == Len(container) = 1

\* The indices the declared count of a container requires.
RangeOf(tree, container) ==
    IF IsLauncherList(container)
    THEN Range(1, Get(SectionAt(tree, container), "LauncherCount"))
    ELSE Range(0, Get(SectionAt(tree, container), "Items"))

\* The required indices of a container that hold no section.
MissingIn(tree, container) ==
    { i \in RangeOf(tree, container) :
        ~Holds(SectionAt(tree, container), ToString(i), "section") }

MissingChild(tree) == \E c \in ContainerPaths(tree) : MissingIn(tree, c) # {}

\* The numbered child sections present under a container.
NumberedChildren(tree, container) ==
    LET c == SectionAt(tree, container)
        lo == IF IsLauncherList(container) THEN 1 ELSE 0
    IN  { k \in DOMAIN c.kv :
            /\ \E i \in lo..(MaxIndex + 2) : k = ToString(i)
            /\ c.kv[k].t = "section" }

\* The index a numbered key stands for.
IndexOf(key) == CHOOSE i \in 0..(MaxIndex + 2) : ToString(i) = key

\* The object of the returned tree that was made from the item at a path.
RECURSIVE OutItemAt(_, _)
OutItemAt(items, keys) ==
    LET object == items[IndexOf(Head(keys)) + 1]
    IN  IF Len(keys) = 1 THEN object ELSE OutItemAt(object.items, Tail(keys))

OutAt(launchers, path) ==
    OutItemAt(launchers[IndexOf(path[2])].items, SubSeq(path, 4, Len(path)))

ParseThrewOcsError == parseResult.err = "OcsError" /\ parseResult.launchers = <<>>

ParseReturned == parseResult.err = "none"

\* C4: a numbered child inside the declared count of the launcher list, of
\* a Menu or of a Submenu that is absent or is no section makes Ocs.parse
\* throw OcsError; no tree is returned.
C4_MissingChildIsOcsError ==
    parsePc = "done" /\ MissingChild(root) => ParseThrewOcsError

\* C4 witness: a submenu misses a child inside its Items and the parse threw.
C4_Witness ==
    /\ parsePc = "done"
    /\ ParseThrewOcsError
    /\ \E c \in SubmenuPaths(root) : MissingIn(root, c) # {}

\* C5 as claimed: after a successful parse every declared count equals the
\* number of numbered child sections present under its container.
C5_AsClaimed ==
    parsePc = "done" /\ ParseReturned =>
        \A c \in ContainerPaths(root) :
            LET count == Get(SectionAt(root, c),
                             IF IsLauncherList(c) THEN "LauncherCount" ELSE "Items")
            IN  /\ count.t = "number"
                /\ ~count.nan
                /\ count.n = Cardinality(NumberedChildren(root, c))

\* The required fields of the variants, by the Type of the item.
BadItem(item) ==
    LET Opt(key) == Holds(item, key, "undefined") \/ Holds(item, key, "string")
    IN  \/ /\ TypeCode(item) = 0
           /\ ~(/\ Holds(item, "ItemID", "bytes")
                /\ Holds(item, "Caption", "string")
                /\ Holds(item, "ShowCmd", "number")
                /\ Opt("Parameter") /\ Opt("Verb"))
        \/ /\ TypeCode(item) = 1
           /\ ~(Holds(item, "ItemID", "bytes") /\ Holds(item, "Caption", "string"))
        \/ /\ TypeCode(item) = 3
           /\ ~(Holds(item, "Caption", "string") /\ Holds(item, "Items", "number"))
        \/ /\ TypeCode(item) = 4
           /\ ~(Holds(item, "ID", "number") /\ Holds(item, "Caption", "string"))

BadLauncher(launcher) ==
    ~(Holds(launcher, "Title", "string") /\ Holds(launcher, "Menu", "section"))

BadItemPaths(tree) == { p \in ItemPaths(tree) : BadItem(SectionAt(tree, p)) }

BadField(tree) ==
    \/ \E p \in LauncherPaths(tree) : BadLauncher(SectionAt(tree, p))
    \/ BadItemPaths(tree) # {}

\* C6: an item or launcher inside its parent's declared count, at any depth
\* of submenus, with a required field missing or of the wrong type makes
\* Ocs.parse throw OcsError; no tree is returned.
C6_BadFieldIsOcsError ==
    parsePc = "done" /\ BadField(root) => ParseThrewOcsError

\* C6 witness: the offending item sits inside a submenu, no child is
\* missing, and the parse threw.
C6_Witness ==
    /\ parsePc = "done"
    /\ ParseThrewOcsError
    /\ ~MissingChild(root)
    /\ \E p \in BadItemPaths(root) : Len(p) > 4

UnknownType(item) == TypeCode(item) \notin 0..4

\* Everything the parser requires, nothing being required of an item of
\* unknown Type.
WellFormed(tree) ==
    /\ Holds(tree, "Launchers", "section")
    /\ Holds(Get(tree, "Launchers"), "LauncherCount", "number")
    /\ \A m \in MenuPaths(tree) : Holds(SectionAt(tree, m), "Items", "number")
    /\ ~MissingChild(tree)
    /\ ~BadField(tree)

\* C7: an item whose Type is none of the numbers 0..4 becomes the Unknown
\* variant whatever its other fields hold, and a tree that is well formed
\* but for the fields of such items is parsed without an error.
C7_UnknownTypeIsUnknownItem ==
    parsePc = "done" =>
        /\ WellFormed(root) => ParseReturned
        /\ ParseReturned =>
              \A p \in ItemPaths(root) :
                  UnknownType(SectionAt(root, p)) =>
                      OutAt(parseResult.launchers, p).kind = "Unknown"

\* C7 witness: a parse succeeded on an item whose Type is absent, NaN or no
\* number and which carries the fields of a Launch item.
C7_Witness ==
    /\ parsePc = "done"
    /\ ParseReturned
    /\ \E p \in ItemPaths(root) :
          LET item == SectionAt(root, p)
              type == Get(item, "Type")
          IN  /\ type.t # "number" \/ type.nan
              /\ "ItemID" \in DOMAIN item.kv

(***************************************************************************)
(* The application: failures of the file and of single items.              *)
(***************************************************************************)
\* The entry of #items a data-index stands for.
EntryAt(index) == appItems[index + 1]

IsNamed(entry) == entry.object.kind \in {"Launch", "Folder"}

\* C1 as claimed: over the lifetime of a Launch or Folder item the decoder
\* runs at most once for it, whether it yields a path or fails.
C1_DecodedAtMostOnce == \A id \in DOMAIN decodes : decodes[id] <= 1

\* The file of the last processText is one Ocs.parse rejects.
RejectedFile(event) ==
    /\ event.name = "processText"
    /\ Ocs_parse(AppDocuments[event.arg]).err = "OcsError"

\* C2: when Ocs.parse throws OcsError inside processText, the loaded
\* document, the item list, the launcher select, the menu and the info
\* panel are what they were before the call.
C2_RejectedFileChangesNothing ==
    [][RejectedFile(lastEvent') =>
          UNCHANGED <<appOcs, appItems, eLauncherSelect, eLauncher, eInfo>>]_vars

\* C2 witness: a file was rejected while a document with two launchers was
\* loaded and the info of an item was shown.
C2_Witness ==
    /\ RejectedFile(lastEvent)
    /\ lastEvent.alert # ""
    /\ appOcs.defined
    /\ Len(appOcs.launchers) = 2
    /\ eInfo.shown

\* The listener about to run on a target resolves the name of an item whose
\* identifier list does not decode.
FailingTarget(event) ==
    /\ event.name = "click" \/ (event.name = "mouseover" /\ ~eLauncher.locked)
    /\ event.arg >= 0
    /\ IsNamed(EntryAt(event.arg))
    /\ getPathFromItemID(EntryAt(event.arg).object.itemID).err # "none"

\* C3: when displayName() throws for the item of a hover or a click, nothing
\* escapes the listener, the info of that item is shown with the error in
\* place of the path, and the parsed tree and the display names of the
\* other items stay as they were.
C3_FailureStaysWithItem ==
    [][FailingTarget(lastEvent') =>
          /\ lastEvent'.escaped = "none"
          /\ eInfo'.shown
          /\ eInfo'.id = EntryAt(lastEvent'.arg).id
          /\ eInfo'.ref.error # "none"
          /\ appOcs' = appOcs
          /\ \A id \in DOMAIN displayNames :
                id # EntryAt(lastEvent'.arg).id => displayNames'[id] = displayNames[id]]_vars

\* C3 witness: the info panel shows the error of an item while another item
\* of the document holds its resolved name.
C3_Witness ==
    /\ lastEvent.name \in {"mouseover", "click"}
    /\ eInfo.shown
    /\ eInfo.kind \in {"Launch", "Folder"}
    /\ eInfo.ref.error # "none"
    /\ \E id \in DOMAIN displayNames : displayNames[id].defined


(***************************************************************************)
(* Claims about the methods of ItemIDList and the strategies, checked      *)
(* under SpecRecord.                                                       *)
(***************************************************************************)
\* 17 00 2F, "C:\" padded with NULs to 20 bytes, then the terminator.
C11_Buffer ==
    <<23, 0, 47, 67, 58, 92, 0, 0, 0, 0, 0, 0, 0, 0, 0, 0, 0, 0, 0, 0, 0, 0, 0,
      0, 0>>

\* C11 as claimed: under MyComputer the 23-byte drive record of "C:\" and
\* the terminator resolve to the path C: with the backslash trimmed.
C11_AsClaimed ==
    (recOp = "MyComputer" /\ record = C11_Buffer)
        => recResult = [err |-> "none", some |-> TRUE, text |-> <<67, 58>>]

\* C11 amended: under MyComputer the 23-byte drive record of "C:\" and the
\* terminator resolve to the path C:\ and nothing else: the drive string as
\* the record stores it, its trailing backslash kept.
C11_DriveRootKept ==
    (recOp = "MyComputer" /\ record = C11_Buffer)
        => recResult = [err |-> "none", some |-> TRUE, text |-> <<67, 58, 92>>]

\* C11 witness: MyComputer.buildPath ran on the drive record of the claim.
C11_Witness == recOp = "MyComputer" /\ record = C11_Buffer /\ recResult.some

\* The record at the head of a buffer, as the claims describe it: its length
\* field, its tag, and the 16-bit number in its last two bytes (a byte the
\* buffer does not hold counts as 0).
ByteOf(buf, i) == IF i >= 0 /\ i < Len(buf) THEN buf[i + 1] ELSE 0

LengthOf(buf) == ByteOf(buf, 0) + 256 * ByteOf(buf, 1)

TagOf(buf) == ByteOf(buf, 2)

TrailingOffset(buf) ==
    ByteOf(buf, LengthOf(buf) - 2) + 256 * ByteOf(buf, LengthOf(buf) - 1)

\* The trailing offset is odd, below 15 or above length - 24.
OffsetRejected(buf) ==
    \/ TrailingOffset(buf) % 2 = 1
    \/ TrailingOffset(buf) < 15
    \/ TrailingOffset(buf) > LengthOf(buf) - 24

DriveTags == {35, 37, 41, 47}

GuidTags == {31, 46, 113}

\* The text of a record that has no name: the drive name, the class name,
\* or nothing.
Fallback(buf) ==
    IF TagOf(buf) \in DriveTags THEN DriveStruct_driveName(NewItemIDList(buf, 0))
    ELSE IF TagOf(buf) = 113
    THEN getClassName(CLSIDValue(ExtGUIDStruct_guid(NewItemIDList(buf, 0))))
    ELSE IF TagOf(buf) \in GuidTags
    THEN getClassName(CLSIDValue(GUIDStruct_guid(NewItemIDList(buf, 0))))
    ELSE <<>>

\* C12 as claimed: getText() of a record whose trailing offset is odd, below
\* 15 or above length - 24 returns normally, with the drive name, the class
\* name or the empty string, whatever the record's length and whatever the
\* buffer holds behind the record.
C12_AsClaimed ==
    (recOp = "getText" /\ LengthOf(record) # 0 /\ OffsetRejected(record))
        => /\ recResult.err = "none"
           /\ recResult.text = Fallback(record)

\* The buffer holds what the layout the tag selects reads: the tag, and for
\* a GUID tag the 16 bytes of the CLSID.
LayoutInBuffer(buf) ==
    /\ Len(buf) >= 3
    /\ TagOf(buf) \in {31, 46} => Len(buf) >= 20
    /\ TagOf(buf) = 113 => Len(buf) >= 30

\* ::{FFEEDDCC-BBAA-9988-7766-554433221100}
UnregisteredText ==
    <<58, 58, 123, 70, 70, 69, 69, 68, 68, 67, 67, 45, 66, 66, 65, 65, 45, 57, 57,
      56, 56, 45, 55, 55, 54, 54, 45, 53, 53, 52, 52, 51, 51, 50, 50, 49, 49, 48,
      48, 125>>

\* C16: getText() of a record is its file name when FileStructW_name yields
\* one, whatever the tag; else the drive name for the tags 0x23, 0x25, 0x29,
\* 0x2F; else for the tags 0x1F, 0x2E (CLSID at offset 4) and 0x71 (CLSID at
\* offset 14) the registered name of the CLSID or ::{CLSID} in upper case;
\* else the empty string.
C16_TextPrecedence ==
    (recOp = "getText" /\ LengthOf(record) # 0 /\ LayoutInBuffer(record))
        => /\ recResult.err = "none"
           /\ recResult.text =
                IF FileStructW_name(NewItemIDList(record, 0)).some
                THEN FileStructW_name(NewItemIDList(record, 0)).name
                ELSE Fallback(record)
           /\ (TagOf(record) \in {46, 113}
               /\ Len(record) >= 30
               /\ SubSeq(record, IF TagOf(record) = 113 THEN 15 ELSE 5,
                                 IF TagOf(record) = 113 THEN 30 ELSE 20)
                    = <<204, 221, 238, 255, 170, 187, 136, 153,
                        119, 102, 85, 68, 51, 34, 17, 0>>)
              => recResult.text = UnregisteredText

\* C16 witness: getText() ran on a record with a drive tag or a GUID tag
\* that also holds a name, and yielded the name.
C16_Witness ==
    /\ recOp = "getText"
    /\ TagOf(record) \in DriveTags \cup GuidTags
    /\ ~OffsetRejected(record)
    /\ recResult.text = <<97>>

\* A byte of the record at the head of the buffer: what lies behind the
\* record's end, or behind the buffer's, counts as 0.
RecordByte(buf, i) == IF i < LengthOf(buf) THEN ByteOf(buf, i) ELSE 0

\* The length header of the name block at the trailing offset, and the
\* extra length behind the block.
HeaderLength(buf) ==
    RecordByte(buf, TrailingOffset(buf)) + 256 * RecordByte(buf, TrailingOffset(buf) + 1)

ExtraLength(buf) ==
    RecordByte(buf, TrailingOffset(buf) + HeaderLength(buf))
        + 256 * RecordByte(buf, TrailingOffset(buf) + HeaderLength(buf) + 1)

\* C20: FileStructW_name yields a name only if the trailing offset is even,
\* at least 15 and at most L - 24, and the name block ends at L, or ends
\* before L and offset + header length + extra length = L.
C20_NameOnlyIfReconciled ==
    (recOp = "FileStructW_name" /\ recResult.some)
        => /\ ~OffsetRejected(record)
           /\ \/ TrailingOffset(record) + HeaderLength(record) = LengthOf(record)
              \/ /\ TrailingOffset(record) + HeaderLength(record) < LengthOf(record)
                 /\ TrailingOffset(record) + HeaderLength(record) + ExtraLength(record)
                      = LengthOf(record)

\* C20 witness: a name was yielded for a block that ends before the record
\* does and is followed by its extra length.
C20_Witness ==
    /\ recOp = "FileStructW_name"
    /\ recResult.some
    /\ TrailingOffset(record) + HeaderLength(record) < LengthOf(record)

\* The number of records of the chain at offset o of a buffer, up to the
\* terminator.
RECURSIVE RecordsFrom(_, _)
RecordsFrom(buf, o) ==
    IF ByteOf(buf, o) + 256 * ByteOf(buf, o + 1) = 0 THEN 0
    ELSE 1 + RecordsFrom(buf, o + ByteOf(buf, o) + 256 * ByteOf(buf, o + 1))

\* The texts of the records of that chain, in chain order.
RECURSIVE TextsFrom(_, _)
TextsFrom(buf, o) ==
    IF ByteOf(buf, o) + 256 * ByteOf(buf, o + 1) = 0 THEN <<>>
    ELSE <<getText(NewItemIDList(SubarrayFrom(buf, o), o)).text>>
           \o TextsFrom(buf, o + ByteOf(buf, o) + 256 * ByteOf(buf, o + 1))

\* The separator-delimited segments of a path.
RECURSIVE Separators(_)
Separators(p) ==
    IF p = <<>> THEN 0 ELSE (IF Head(p) = 92 THEN 1 ELSE 0) + Separators(Tail(p))

Segments(p) == IF p = <<>> THEN 0 ELSE 1 + Separators(p)

\* Texts joined into a path: a backslash goes in front of a text when the
\* path so far is not empty and does not end with one.
RECURSIVE Joined(_, _)
Joined(acc, texts) ==
    IF texts = <<>> THEN acc
    ELSE Joined(IF acc # <<>> /\ acc[Len(acc)] # 92
                THEN acc \o <<92>> \o Head(texts)
                ELSE acc \o Head(texts),
                Tail(texts))

\* The texts that make one segment each: not empty, no backslash inside.
Plain(texts) ==
    \A k \in 1..Len(texts) : texts[k] # <<>> /\ Separators(texts[k]) = 0

\* C19 as claimed: FS.buildPath on a chain of n records adds exactly n
\* separator-delimited segments, also when a text is empty or ends with a
\* backslash.
C19_AsClaimed ==
    (recOp = "FS" /\ recResult.some)
        => Segments(recResult.text) = RecordsFrom(record, 0)

\* C19 amended: FS.buildPath appends getText() of each of the n records in
\* chain order, a backslash in front of a text only when the path so far is
\* not empty and does not end with one; the path has n segments when every
\* text is non-empty and holds no backslash, and fewer than n when the
\* first text is empty and no text holds a backslash.
C19_TextsJoined ==
    (recOp = "FS" /\ recResult.some)
        => /\ recResult.text = Joined(<<>>, TextsFrom(record, 0))
           /\ Plain(TextsFrom(record, 0))
                => Segments(recResult.text) = RecordsFrom(record, 0)
           /\ (/\ TextsFrom(record, 0) # <<>>
               /\ Head(TextsFrom(record, 0)) = <<>>
               /\ \A k \in 1..Len(TextsFrom(record, 0)) :
                     Separators(TextsFrom(record, 0)[k]) = 0)
                => Segments(recResult.text) < RecordsFrom(record, 0)

\* C19 witness: FS.buildPath ran on a chain of three records, one of them
\* with an empty text, and left fewer segments than records.
C19_Witness ==
    /\ recOp = "FS"
    /\ recResult.some
    /\ RecordsFrom(record, 0) = 3
    /\ Segments(recResult.text) < 3

(***************************************************************************)
(* Claims about the Desktop strategy, checked under SpecIdl.               *)
(***************************************************************************)
\* The buffer is one record and the terminator.
SingleRecord(buf) ==
    /\ LengthOf(buf) # 0
    /\ Len(buf) = LengthOf(buf) + 2
    /\ ByteOf(buf, LengthOf(buf)) = 0
    /\ ByteOf(buf, LengthOf(buf) + 1) = 0

\* The CLSID a GUID-tagged record at the head of the buffer holds.
ClsidOf(buf) ==
    CLSIDValue(IF TagOf(buf) = 113 THEN ExtGUIDStruct_guid(NewItemIDList(buf, 0))
               ELSE GUIDStruct_guid(NewItemIDList(buf, 0)))

\* C17 as claimed: a chain of exactly one record and the terminator resolves
\* to that record's text, the class name of a GUID-tagged record and
\* getText() of any other.
C17_AsClaimed ==
    (idlPc = "done" /\ SingleRecord(itemID) /\ LayoutInBuffer(itemID))
        => idlResult =
             [err |-> "none",
              path |-> IF TagOf(itemID) \in GuidTags
                       THEN getClassName(ClsidOf(itemID))
                       ELSE getText(NewItemIDList(itemID, 0)).text]

\* The record at the head of the buffer is GUID-tagged, its CLSID selects a
\* strategy, and a list can be constructed behind it.
Delegating(buf) ==
    /\ LengthOf(buf) # 0
    /\ TagOf(buf) \in GuidTags
    /\ LayoutInBuffer(buf)
    /\ getItem(ClsidOf(buf)) # "undefined"
    /\ Len(buf) - LengthOf(buf) >= 2

\* C18 as claimed: the Desktop strategy invokes the strategy a GUID record
\* selects at the position of that GUID record.
C18_AsClaimed ==
    (idlPc = "done" /\ Delegating(itemID))
        => idlResult = Item_buildPath(getItem(ClsidOf(itemID)), <<>>,
                                      NewItemIDList(itemID, 0))

\* C18 amended: the Desktop strategy invokes the strategy a GUID record
\* selects at the position of the record that follows the GUID record (the
\* terminator when nothing else follows), with the path still empty.
C18_DelegatesAtSuccessor ==
    (idlPc = "done" /\ Delegating(itemID))
        => idlResult = Item_buildPath(getItem(ClsidOf(itemID)), <<>>,
                           NewItemIDList(SubarrayFrom(itemID, LengthOf(itemID)),
                                         LengthOf(itemID)))

\* C18 witness: a buffer was decoded whose first record selects a strategy
\* and is followed by a record that is not the terminator.
C18_Witness ==
    /\ idlPc = "done"
    /\ Delegating(itemID)
    /\ ByteOf(itemID, LengthOf(itemID)) # 0
    /\ idlResult.err = "none"
    /\ idlResult.path # <<>>

(***************************************************************************)
(* Claims about the CLSID class, checked under SpecClsid.                  *)
(***************************************************************************)
HexUnit(c) == c \in 48..57 \cup 65..70 \cup 97..102

\* The braced, hyphenated 8-4-4-4-12 pattern of hex digits in either case.
MatchesPattern(s) ==
    /\ Len(s) = 38
    /\ s[1] = 123
    /\ s[38] = 125
    /\ \A i \in {10, 15, 20, 25} : s[i] = 45
    /\ \A i \in (2..37) \ {10, 15, 20, 25} : HexUnit(s[i])

\* s with its letters upper-cased
UpperCased(s) == [ i \in 1..Len(s) |-> IF s[i] \in 97..122 THEN s[i] - 32 ELSE s[i] ]

SameFields(a, b) ==
    /\ a.d1hi = b.d1hi
    /\ a.d1lo = b.d1lo
    /\ a.data2 = b.data2
    /\ a.data3 = b.data3
    /\ a.data4 = b.data4

\* C13: for a text s of the pattern, in either case, parse(s).toString() is
\* s with its letters upper-cased, leading zeros kept; and for t =
\* parse(s).toString(), parse(t).toString() = t and parse(t) equals parse(s).
C13_TextRoundTrip ==
    (clsidSrc.kind = "string" /\ MatchesPattern(clsidSrc.s))
        => /\ clsidPc # "input" => clsidObj.err = "none"
           /\ clsidPc \in {"shown", "reparsed"}
                => /\ clsidStr = UpperCased(clsidSrc.s)
                   /\ Len(clsidStr) = 38
           /\ clsidPc = "reparsed"
                => /\ clsidAgain.err = "none"
                   /\ CLSID_toString(CLSIDValue(clsidAgain)) = clsidStr
                   /\ CLSID_equals(CLSIDValue(clsidAgain), CLSIDValue(clsidObj))
                   /\ SameFields(clsidAgain, clsidObj)

\* C13 witness: a text with lower-case letters and a field that starts with
\* zeros was parsed, printed and parsed again.
C13_Witness ==
    /\ clsidPc = "reparsed"
    /\ clsidSrc.kind = "string"
    /\ clsidStr # clsidSrc.s
    /\ SubSeq(clsidStr, 2, 5) = <<48, 48, 48, 48>>
    /\ clsidStr[11] = 48

\* The bytes a CLSID encodes to: data1 in 4 bytes, data2 and data3 in 2
\* bytes each, low byte first, then the tail.
Encoded(c) ==
    <<c.d1lo % 256, c.d1lo \div 256, c.d1hi % 256, c.d1hi \div 256,
      c.data2 % 256, c.data2 \div 256, c.data3 % 256, c.data3 \div 256>> \o c.data4

UpperDigit(d) == IF d < 10 THEN 48 + d ELSE 55 + d

Hex2(v) == <<UpperDigit(v \div 16), UpperDigit(v % 16)>>

\* The standard text of the GUID in 16 bytes.
GuidText(b) ==
    <<123>> \o Hex2(b[4]) \o Hex2(b[3]) \o Hex2(b[2]) \o Hex2(b[1])
        \o <<45>> \o Hex2(b[6]) \o Hex2(b[5])
        \o <<45>> \o Hex2(b[8]) \o Hex2(b[7])
        \o <<45>> \o Hex2(b[9]) \o Hex2(b[10])
        \o <<45>> \o Hex2(b[11]) \o Hex2(b[12]) \o Hex2(b[13]) \o Hex2(b[14])
        \o Hex2(b[15]) \o Hex2(b[16]) \o <<125>>

\* C14: the CLSID decoded from 16 bytes b has data1 in 0..2^32-1 (both
\* 16-bit halves in 0..65535, also when byte 3 has its top bit set), data2
\* and data3 in 0..65535 and a tail of 8 bytes; it encodes to b again; and
\* it equals the CLSID parsed from the standard GUID text of b.
C14_BytesRoundTrip ==
    (clsidSrc.kind = "bytes" /\ Len(clsidSrc.s) = 16 /\ clsidPc # "input")
        => /\ clsidObj.err = "none"
           /\ clsidObj.d1hi \in 0..65535
           /\ clsidObj.d1lo \in 0..65535
           /\ clsidObj.data2 \in 0..65535
           /\ clsidObj.data3 \in 0..65535
           /\ Len(clsidObj.data4) = 8
           /\ Encoded(clsidObj) = clsidSrc.s
           /\ clsidPc \in {"shown", "reparsed"} => clsidStr = GuidText(clsidSrc.s)
           /\ clsidPc = "reparsed"
                => /\ clsidAgain.err = "none"
                   /\ CLSID_equals(CLSIDValue(clsidObj), CLSIDValue(clsidAgain))
                   /\ SameFields(clsidObj, clsidAgain)

\* C14 witness: 16 bytes with the top bit of byte 3 set were decoded,
\* printed and parsed.
C14_Witness ==
    /\ clsidPc = "reparsed"
    /\ clsidSrc.kind = "bytes"
    /\ clsidSrc.s[4] >= 128
    /\ clsidSrc.s[1] # clsidSrc.s[4]

\* The source is no text of the pattern, or no array of 16 bytes.
Malformed(src) ==
    IF src.kind = "string" THEN ~MatchesPattern(src.s) ELSE Len(src.s) # 16

RECURSIVE ReachesTerminator(_, _)
ReachesTerminator(buf, o) ==
    /\ Len(buf) - o >= 2
    /\ \/ ByteOf(buf, o) + 256 * ByteOf(buf, o + 1) = 0
       \/ ReachesTerminator(buf, o + ByteOf(buf, o) + 256 * ByteOf(buf, o + 1))

\* C21: getPathFromItemID returns a path only if the walk from offset 0
\* reaches a zero-length record inside the buffer; for a buffer of fewer
\* than 2 bytes and for a chain that runs out of buffer at a record boundary
\* it throws and yields no path.
C21_PathOnlyIfTerminated ==
    idlPc = "done"
        => /\ idlResult.err = "none" => ReachesTerminator(itemID, 0)
           /\ ~ReachesTerminator(itemID, 0)
                => idlResult.err # "none" /\ idlResult.path = <<>>
           /\ Len(itemID) < 2 => idlResult.err = "IdlError"

\* C21 witness: a chain of two or more records that a strategy other than
\* Desktop took over was walked to the missing terminator.
C21_Witness ==
    /\ idlPc = "done"
    /\ ~ReachesTerminator(itemID, 0)
    /\ Delegating(itemID)
    /\ idlResult.err = "IdlError"

\* ネットワーク, the display name of the Network folder
NetworkName == <<12493, 12483, 12488, 12527, 12540, 12463>>

\* The buffer starts with a GUID record of the Network folder's CLSID
\* {F02C1A0D-BE21-4350-88B0-7367FC96EF3C}.
NetworkRoot(buf) ==
    /\ Len(buf) >= 20
    /\ TagOf(buf) \in {31, 46}
    /\ SubSeq(buf, 5, 20) = Encoded(CLSID_NetworkExplorerFolder)

\* The offset of the record that follows the record at offset o.
After(buf, o) == o + ByteOf(buf, o) + 256 * ByteOf(buf, o + 1)

\* The ASCII text of the record at offset o from its offset 5 up to the
\* first NUL or the record's end.
RECURSIVE ShareNameFrom(_, _, _)
ShareNameFrom(buf, i, end) ==
    IF i >= end \/ i >= Len(buf) \/ ByteOf(buf, i) = 0 THEN <<>>
    ELSE <<ByteOf(buf, i)>> \o ShareNameFrom(buf, i + 1, end)

\* The text the Network strategy renders the record at offset o with.
ShareText(buf, o) ==
    IF ByteOf(buf, o + 2) = 195 THEN ShareNameFrom(buf, o + 5, After(buf, o))
    ELSE getText(NewItemIDList(SubarrayFrom(buf, o), o)).text

\* C22: under the Network strategy a root followed by no record or by one
\* record resolves to the Network display name alone; followed by two or
\* more, the name is not rendered, the first record is skipped, the second
\* is rendered as the share name (tag 0xC3) or as getText(), and the further
\* ones by FS.buildPath.
C22_NetworkPath ==
    (idlPc = "done" /\ NetworkRoot(itemID) /\ ReachesTerminator(itemID, 0)
       /\ idlResult.err = "none")
        => idlResult.path =
             IF RecordsFrom(itemID, After(itemID, 0)) <= 1 THEN NetworkName
             ELSE Joined(ShareText(itemID, After(itemID, After(itemID, 0))),
                         TextsFrom(itemID,
                                   After(itemID, After(itemID, After(itemID, 0)))))

\* C22 witness: the Network root, a record that is skipped, a share record
\* and a file record were decoded.
C22_Witness ==
    /\ idlPc = "done"
    /\ NetworkRoot(itemID)
    /\ RecordsFrom(itemID, After(itemID, 0)) = 3
    /\ ByteOf(itemID, After(itemID, After(itemID, 0)) + 2) = 195
    /\ idlResult = [err |-> "none", path |-> <<92, 92, 83, 92, 97, 98>>]

\* The buffer with every byte behind the record at its head set to 0.
Blanked(buf) ==
    [ i \in 1..Len(buf) |-> IF i <= LengthOf(buf) THEN buf[i] ELSE 0 ]

\* C25 as claimed: the fields of a record are read from the record's own
\* bytes only, so getText() of a record that lies in the buffer is the same
\* whatever bytes follow the record.
C25_AsClaimed ==
    (recOp = "getText" /\ LengthOf(record) \in 1..Len(record))
        => /\ recResult.err = getText(NewItemIDList(Blanked(record), 0)).err
           /\ recResult.text = getText(NewItemIDList(Blanked(record), 0)).text

\* The list a strategy holds at offset o of the buffer.
ListAt(buf, o) == NewItemIDList(SubarrayFrom(buf, o), o)

\* C26: getPathFromItemID ends for every buffer, with a string or with an
\* error; at every offset of the buffer getNext() of a list that is not the
\* terminator yields a list at a strictly later offset over a strictly
\* shorter rest, also for the lengths 1 and 2, and the strategies (Desktop
\* handing over to itself included) and FS.buildPath go on only with lists
\* getNext() yielded.
C26_EveryStepAdvances ==
    /\ idlPc = "done" => idlResult.err \in {"none", "IdlError", "Error", "TypeError"}
    /\ \A o \in 0..Len(itemID) :
          (ListAt(itemID, o).err = "none" /\ ~isDesktop(ListAt(itemID, o))
             /\ getNext(ListAt(itemID, o)).err = "none")
            => /\ getNext(ListAt(itemID, o)).some
               /\ getNext(ListAt(itemID, o)).idl.off > o
               /\ Len(getNext(ListAt(itemID, o)).idl.data) < Len(ListAt(itemID, o).data)

\* C26 witness: a buffer was decoded that starts with the Desktop's GUID
\* record and goes on with a record of length 1.
C26_Witness ==
    /\ idlPc = "done"
    /\ Len(itemID) >= 22
    /\ SubSeq(itemID, 5, 20) = Encoded(CLSID_ShellDesktop)
    /\ SubSeq(itemID, 21, 22) = <<1, 0>>

\* The name block of the record at the head of the buffer passes the checks
\* of its offset and of its lengths.
BlockValid(buf) ==
    /\ LengthOf(buf) \in 1..Len(buf)
    /\ ~OffsetRejected(buf)
    /\ \/ TrailingOffset(buf) + HeaderLength(buf) = LengthOf(buf)
       \/ /\ TrailingOffset(buf) + HeaderLength(buf) < LengthOf(buf)
          /\ TrailingOffset(buf) + HeaderLength(buf) + ExtraLength(buf) = LengthOf(buf)

\* The name-start offset at byte 16 of the name block.
NameStart(buf) ==
    RecordByte(buf, TrailingOffset(buf) + 16)
        + 256 * RecordByte(buf, TrailingOffset(buf) + 17)

\* The bytes of the name block from the name-start offset to its end.
Room(buf) == LengthOf(buf) - TrailingOffset(buf) - NameStart(buf)

\* C30 as claimed: in a validated name block the name-start offset is
\* rejected exactly when fewer than 2 bytes remain behind it; with exactly 2
\* bytes the name is decoded.
C30_AsClaimed ==
    (recOp = "FileStructW_name" /\ BlockValid(record))
        => (recResult.some <=> Room(record) >= 2)

\* The step is a click on an item of the menu for which #createInfo yields
\* nothing: a Separator or an Unknown item.
NoInfoClick ==
    /\ events' = events + 1
    /\ lastEvent'.name = "click"
    /\ lastEvent'.arg >= 0
    /\ lastEvent'.arg < Len(appItems)
    /\ appItems[lastEvent'.arg + 1].object.kind \in {"Separator", "Unknown"}

\* C28 as claimed: a click on an item without info leaves the selected item,
\* its locked state and the info panel as they were.
C28_AsClaimed ==
    [][NoInfoClick => (eLauncher' = eLauncher /\ eInfo' = eInfo)]_vars

\* C29 as claimed: while the listener that ran last is a dragover of files
\* (no dragleave since), no close timer is pending and the dialog has not
\* been closed by a timer of an earlier dragleave; at most one close timer
\* is pending at any time.
C29_AsClaimed ==
    /\ (appOcs.defined /\ lastEvent.name = "dragover" /\ lastEvent.arg = 1)
          => (timers = {} /\ fileDialogOpen)
    /\ Cardinality(timers) <= 1

\* C27 as claimed: the two variants of Ocs.parse accept the same texts and
\* return the same launchers on them; for a text without section header
\* both throw OcsError.
C27_AsClaimed ==
    ocsPc = "returned"
        => /\ textChecked.err = textResult.err
           /\ textChecked.launchers = textResult.launchers
           /\ ocsSection = 0
                => (textChecked.err = "OcsError" /\ textResult.err = "OcsError")

\* The keys of the lines of the model.
AllKeys == {"Launchers", "1", "LauncherCount", "__proto__"}

\* What data[keys[1]]...[keys[n]] yields on a heap; undefined behind a value
\* that is no object.
RECURSIVE Reached(_, _, _)
Reached(h, keys, n) ==
    IF n = 0 THEN Ref(Data)
    ELSE IF Reached(h, keys, n - 1).t # "section" THEN Absent
    ELSE GetProperty(h, Reached(h, keys, n - 1).id, keys[n])

\* What the claim says of a header line with these keys, read on the heap
\* before with the result after.
Redeclared(keys, before, after, active, err) ==
    /\ err = "none"
    /\ active > Len(before)
    /\ Reached(after, keys, Len(keys)) = Ref(active)
    /\ Readable(after, active) = {}
    /\ \A n \in 1..(Len(keys) - 1) :
          IF Reached(before, keys, n).t = "section"
          THEN /\ Reached(after, keys, n) = Reached(before, keys, n)
               /\ \A key \in AllKeys \ {keys[n + 1]} :
                     GetProperty(after, Reached(before, keys, n).id, key)
                        = GetProperty(before, Reached(before, keys, n).id, key)
          ELSE /\ Reached(after, keys, n).t = "section"
               /\ Reached(after, keys, n).id > Len(before)

\* C23 as claimed: a header line [p1\...\pk] leaves a fresh, empty section
\* at that path and makes it the active one; the components before the last
\* that are sections are kept with their other contents, the others are
\* replaced by new sections.
C23_AsClaimed ==
    [][(linesRead' = linesRead + 1 /\ lastLine' \in HeaderLines)
          => Redeclared(HeaderKeys(lastLine'), heap, heap', ocsSection', ocsErr')]_vars

\* The line is one the claim says is skipped: a value line before any
\* header, a value line of an unknown type, a line of neither pattern.
Skipped(line, active) ==
    \/ line \in ValueLines \cup UnknownTypeLines /\ active = 0
    \/ line \in UnknownTypeLines
    \/ line \in OtherLines

\* C24: a value line before any section header, a value line of a type other
\* than dw, ws, bn, and a line of neither pattern leave the objects and the
\* active section as they are and do not end the parsing; every line is
\* processed after it as it would have been before it.
C24_SkippedLineChangesNothing ==
    [][(linesRead' = linesRead + 1 /\ Skipped(lastLine', ocsSection))
          => /\ heap' = heap
             /\ ocsSection' = ocsSection
             /\ ocsErr' = "none"
             /\ ocsPc' = "lines"
             /\ \A line \in HeaderLines \cup ValueLines \cup UnknownTypeLines
                              \cup IgnoredLines \cup OtherLines :
                   parseOcs(heap', ocsSection', line) = parseOcs(heap, ocsSection, line)]_vars

\* C24 witness: a value line of an unknown type was read after a header and
\* a value; the loop goes on.
C24_Witness ==
    /\ ocsPc = "lines"
    /\ linesRead = 3
    /\ lastLine \in UnknownTypeLines
    /\ ocsSection # 0
    /\ DOMAIN heap[ocsSection].own # {}
====
